---------------------------- MODULE Spec2Model ----------------------------
(***************************************************************************)
(* A model of the numeric pipeline of Signal-analysis-pro                  *)
(* (src/services/signalProcessor.ts): the radix-2 FFT and the single-sided *)
(* spectrum, Welch's PSD estimate, the noise estimator, the framing loops  *)
(* of the tonal detector and of the DoA estimator, and the filter stage.   *)
(*                                                                         *)
(* Numbers.  A JavaScript number that carries a fraction is held in fixed  *)
(* point: the integer v stands for v / FP.  Array lengths, indices and     *)
(* loop counters are plain integers.  The values JavaScript yields where   *)
(* no number results (undefined read past the end of an array, NaN) are    *)
(* the distinguished values Undefined and NaN below.                       *)
(*                                                                         *)
(* Calls.  A function without a loop whose termination is in question is   *)
(* an operator, computed as the code computes it.  A function whose loop   *)
(* may fail to advance is a small state machine: one action per loop       *)
(* iteration, one for the code after the loop.  Every call ends in a       *)
(* result record whose kind is "return" or "raise".                        *)
(***************************************************************************)
EXTENDS Integers, Sequences, FiniteSets, TLC

(***************************************************************************)
(* Bounds of the model.                                                    *)
(***************************************************************************)
\* longest signal drawn as an input
MaxLen == 4
\* largest nperseg handed to calculateWelchPsd directly
MaxNperseg == 5
\* largest frameLengthSec, in units of 1 / TimeDen seconds
MaxFrameTicks == 6
\* largest frameDuration * samplingRate handed to the framing loops
MaxFrameProduct == 6
\* iterations of a loop that are followed before the model stops following it
MaxIter == 6
\* most detections handed to the cross-frame tracking of detectTonals
MaxTonals == 3
\* longest channel handed to calculateDoaVsTime
MaxDoaLen == 5
\* most orientation samples handed to getInterpolatedOrientation
MaxSamples == 3

(***************************************************************************)
(* Fixed point.                                                            *)
(***************************************************************************)
\* resolution of the fixed-point representation: v stands for v / FP
FP == 1000
\* resolution of a duration given in seconds: t stands for t / TimeDen s
TimeDen == 2

\* JavaScript's NaN (0 * Infinity, 0 / 0, arithmetic on undefined)
NaN == -999999
\* JavaScript's undefined (a read past the end of an array)
Undefined == -999998

IsNumber(v) == v # NaN /\ v # Undefined

Abs(x) == IF x < 0 THEN -x ELSE x
Min(a, b) == IF a <= b THEN a ELSE b
Max(a, b) == IF a >= b THEN a ELSE b

\* x / d rounded to the nearest integer (d > 0)
RoundDiv(x, d) == (2 * x + d) \div (2 * d)
\* the product of two fixed-point numbers
MulFP(a, b) == RoundDiv(a * b, FP)

RECURSIVE Pow2(_)
Pow2(k) == IF k <= 0 THEN 1 ELSE 2 * Pow2(k - 1)

RECURSIVE SumSeq(_)
SumSeq(s) == IF s = <<>> THEN 0 ELSE Head(s) + SumSeq(Tail(s))

\* floor(sqrt(x)) for x >= 0: Math.sqrt
RECURSIVE SqrtFrom(_, _)
SqrtFrom(x, r) == IF (r + 1) * (r + 1) > x THEN r ELSE SqrtFrom(x, r + 1)
RECURSIVE ISqrt(_)
ISqrt(x) == IF x < 4 THEN SqrtFrom(x, 0)
            ELSE LET h == 2 * ISqrt(x \div 4) IN SqrtFrom(x, h)

\* Math.ceil(Math.log2(n)) for an integer n >= 1
RECURSIVE CeilLog2(_)
CeilLog2(n) == IF n <= 1 THEN 0 ELSE 1 + CeilLog2((n + 1) \div 2)
\* Math.floor(Math.log2(n)) for an integer n >= 1
RECURSIVE FloorLog2(_)
FloorLog2(n) == IF n <= 1 THEN 0 ELSE 1 + FloorLog2(n \div 2)

(***************************************************************************)
(* Math.cos and Math.sin: a table of the quarter wave at 64 steps a turn,  *)
(* FP-scaled, with linear interpolation between the steps.  The angles of  *)
(* the twiddle factors of the lengths up to 64 fall on the steps.          *)
(***************************************************************************)
CosQuarter == <<1000, 995, 981, 957, 924, 882, 831, 773, 707,
                634, 556, 471, 383, 290, 195, 98, 0>>

\* cos(2 pi k / 64) for k in 0..64
CosStep(k) == IF k <= 16 THEN CosQuarter[k + 1]
              ELSE IF k <= 32 THEN -CosQuarter[32 - k + 1]
              ELSE IF k <= 48 THEN -CosQuarter[k - 32 + 1]
              ELSE CosQuarter[64 - k + 1]

\* cos(2 pi num / den), den > 0
CosTurn(num, den) ==
    LET pos  == 64 * (num % den)
        k    == pos \div den
        frac == pos % den
    IN  CosStep(k) + RoundDiv((CosStep(k + 1) - CosStep(k)) * frac, den)

\* sin(2 pi num / den) = cos(2 pi (num / den - 1 / 4))
SinTurn(num, den) == CosTurn(4 * num - den, 4 * den)

(***************************************************************************)
(* The bitwise AND of two 32-bit integers (JavaScript's &).                *)
(***************************************************************************)
RECURSIVE BitAndNat(_, _, _)
BitAndNat(a, b, bits) ==
    IF bits = 0 THEN 0
    ELSE (a % 2) * (b % 2) + 2 * BitAndNat(a \div 2, b \div 2, bits - 1)

\* operands in -2^31 .. 2^31 - 1, one of them non-negative (which is all
\* fft needs): x % 2 and x \div 2 walk the two's complement bits of x
BitAnd32(a, b) == BitAndNat(a, b, 32)

(***************************************************************************)
(* fft                                                                     *)
(***************************************************************************)
Raise(err) == [kind |-> "raise", error |-> err]

\* the guard of the throw
fftRejectsOddLength(n) == n % 2 # 0
fftRejects(n) == BitAnd32(n, n - 1) # 0 /\ n # 0

Swap(s, i, j) == [s EXCEPT ![i + 1] = s[j + 1], ![j + 1] = s[i + 1]]

\* while (j >= m && m > 0) { j -= m; m >>= 1; }  yields <<j, m>>
RECURSIVE fftCarry(_, _)
fftCarry(j, m) == IF j >= m /\ m > 0 THEN fftCarry(j - m, m \div 2)
                  ELSE <<j, m>>

\* the samples left in the order they came in
fftUnpermuted(real, i, j) == real

\* the first loop: for (i = 0; i < n; i++)
RECURSIVE fftPermute(_, _, _)
fftPermute(real, i, j) ==
    LET n == Len(real) IN
    IF i >= n THEN real
    ELSE LET swapped == IF i < j THEN Swap(real, i, j) ELSE real
             jm == fftCarry(j, n \div 2)
         IN  fftPermute(swapped, i + 1, jm[1] + jm[2])

\* for (k = 0; k < halfLen; k++): one butterfly and the next twiddle factor
RECURSIVE fftButterflies(_, _, _, _, _, _)
fftButterflies(st, i, k, halfLen, wk, w) ==
    IF k >= halfLen THEN st
    ELSE LET real == st.real
             imag == st.imag
             u_real == real[i + k + 1]
             u_imag == imag[i + k + 1]
             x_real == real[i + k + halfLen + 1]
             x_imag == imag[i + k + halfLen + 1]
             v_real == MulFP(x_real, wk[1]) - MulFP(x_imag, wk[2])
             v_imag == MulFP(x_real, wk[2]) + MulFP(x_imag, wk[1])
             next_wk_real == MulFP(wk[1], w[1]) - MulFP(wk[2], w[2])
             next_wk_imag == MulFP(wk[1], w[2]) + MulFP(wk[2], w[1])
         IN  fftButterflies(
                 [real |-> [real EXCEPT ![i + k + 1] = u_real + v_real,
                                        ![i + k + halfLen + 1] = u_real - v_real],
                  imag |-> [imag EXCEPT ![i + k + 1] = u_imag + v_imag,
                                        ![i + k + halfLen + 1] = u_imag - v_imag]],
                 i, k + 1, halfLen, <<next_wk_real, next_wk_imag>>, w)

\* for (i = 0; i < n; i += len)
RECURSIVE fftBlocks(_, _, _, _)
fftBlocks(st, i, len, w) ==
    IF i >= Len(st.real) THEN st
    ELSE fftBlocks(fftButterflies(st, i, 0, len \div 2, <<FP, 0>>, w),
                   i + len, len, w)

\* for (len = 2; len <= n; len <<= 1)
RECURSIVE fftStages(_, _)
fftStages(st, len) ==
    IF len > Len(st.real) THEN st
    ELSE fftStages(fftBlocks(st, 0, len, <<CosTurn(-1, len), SinTurn(-1, len)>>),
                   2 * len)

fft(input) ==
    LET n == Len(input) IN
    IF fftRejects(n) THEN Raise("FFT input length must be a power of 2.")
    ELSE LET st == fftStages([real |-> fftPermute(input, 0, 0),
                              imag |-> [i \in 1..n |-> 0]], 2)
         IN  [kind |-> "return", real |-> st.real, imag |-> st.imag]

(***************************************************************************)
(* What the fixed-point table cannot hold: Math.cos(-Math.PI / 2) is       *)
(* 6.123e-17, not 0, and Math.sin(-Math.PI) is -1.2246e-16, twice that.    *)
(* fftResidue follows, to first order, the multiple of 6.123e-17 that each *)
(* coefficient of fft carries from these two twiddle factors.  A complex   *)
(* number with its residue is <<re, im, reResidue, imResidue>>, the        *)
(* residues fixed-point multiples of 6.123e-17.                            *)
(***************************************************************************)
\* the residue of w_real = Math.cos(-2 * Math.PI / len)
fftCosResidue(len) == IF len = 4 THEN FP ELSE 0
\* the residue of w_imag = Math.sin(-2 * Math.PI / len)
fftSinResidue(len) == IF len = 2 THEN -2 * FP ELSE 0

\* the product of two complex numbers with residues
fftMulResidue(a, b) ==
    <<MulFP(a[1], b[1]) - MulFP(a[2], b[2]),
      MulFP(a[1], b[2]) + MulFP(a[2], b[1]),
      MulFP(a[3], b[1]) + MulFP(a[1], b[3]) - MulFP(a[4], b[2]) - MulFP(a[2], b[4]),
      MulFP(a[3], b[2]) + MulFP(a[1], b[4]) + MulFP(a[4], b[1]) + MulFP(a[2], b[3])>>

\* the butterflies of one block, on <<re, im, reResidue, imResidue>>
RECURSIVE fftResidueButterflies(_, _, _, _, _, _)
fftResidueButterflies(st, i, k, halfLen, wk, w) ==
    IF k >= halfLen THEN st
    ELSE LET u == st[i + k + 1]
             v == fftMulResidue(st[i + k + halfLen + 1], wk)
         IN  fftResidueButterflies(
                 [st EXCEPT ![i + k + 1] = [c \in 1..4 |-> u[c] + v[c]],
                            ![i + k + halfLen + 1] = [c \in 1..4 |-> u[c] - v[c]]],
                 i, k + 1, halfLen, fftMulResidue(wk, w), w)

RECURSIVE fftResidueBlocks(_, _, _, _)
fftResidueBlocks(st, i, len, w) ==
    IF i >= Len(st) THEN st
    ELSE fftResidueBlocks(fftResidueButterflies(st, i, 0, len \div 2, <<FP, 0, 0, 0>>, w),
                          i + len, len, w)

RECURSIVE fftResidueStages(_, _)
fftResidueStages(st, len) ==
    IF len > Len(st) THEN st
    ELSE fftResidueStages(
             fftResidueBlocks(st, 0, len, <<CosTurn(-1, len), SinTurn(-1, len),
                                            fftCosResidue(len), fftSinResidue(len)>>),
             2 * len)

\* the residues of the coefficients fft returns for an input it accepts
fftResidue(input) ==
    LET permuted == fftPermute(input, 0, 0)
        st == fftResidueStages([i \in 1..Len(input) |-> <<permuted[i], 0, 0, 0>>], 2)
    IN  [real |-> [i \in 1..Len(input) |-> st[i][3]],
         imag |-> [i \in 1..Len(input) |-> st[i][4]]]

(***************************************************************************)
(* calculateFFT                                                            *)
(***************************************************************************)
\* new Array(len) with len = num / den raises a RangeError unless len is a
\* non-negative integer
ArrayLengthOk(num, den) == num >= 0 /\ num % den = 0

\* an element of an array, undefined past its end
At(s, i) == IF i >= 0 /\ i < Len(s) THEN s[i + 1] ELSE Undefined

\* Math.sqrt(re * re + im * im) of two fixed-point numbers
Magnitude(re, im) == IF IsNumber(re) /\ IsNumber(im) THEN ISqrt(re * re + im * im)
                     ELSE NaN

\* const paddedLength = Math.pow(2, power)
paddedLengthOf(n) == Pow2(IF n > 0 THEN CeilLog2(n) ELSE 0)

ZeroPad(data, n) == [i \in 1..n |-> IF i <= Len(data) THEN data[i] ELSE 0]

\* (2 / paddedLength) * |X_i|
calculateFFTMagnitude(re, im, paddedLength) ==
    RoundDiv(2 * Magnitude(re, im), paddedLength)

calculateFFT(data, samplingRate) ==
    LET paddedLength == paddedLengthOf(Len(data))
        paddedData   == ZeroPad(data, paddedLength)
        X            == fft(paddedData)
    IN  IF X.kind = "raise" THEN X
        ELSE IF ~ArrayLengthOk(paddedLength, 2)
             THEN Raise("RangeError: Invalid array length")
        ELSE LET halfLength == paddedLength \div 2 IN
             [kind        |-> "return",
              magnitudes  |-> [i \in 1..halfLength |->
                                  calculateFFTMagnitude(X.real[i], X.imag[i],
                                                        paddedLength)],
              frequencies |-> [i \in 1..halfLength |->
                                  RoundDiv((i - 1) * samplingRate * FP,
                                           paddedLength)]]

(***************************************************************************)
(* calculateWelchPsd                                                       *)
(***************************************************************************)
\* what a call that never comes back yields: its loop does not advance
Diverge == [kind |-> "diverge"]

\* lines 257-260: a data shorter than nperseg shrinks nperseg to
\* Math.pow(2, Math.floor(Math.log2(data.length))), which is 0 for no data
welchNperseg(len, nperseg) ==
    IF len < nperseg
    THEN IF len = 0 THEN 0 ELSE Pow2(FloorLog2(len))
    ELSE nperseg

\* if (nperseg === 0) return { freqs: [], psd: [] }, inside the same if
welchReturnsEmpty(len, nperseg) == len < nperseg /\ welchNperseg(len, nperseg) = 0

\* Math.pow(2, Math.ceil(Math.log2(nperseg))): 2^-Infinity = 0 for nperseg 0
welchNfft(nperseg) == IF nperseg = 0 THEN 0 ELSE Pow2(CeilLog2(nperseg))

\* Math.floor(nperseg / 2)
welchHopSize(nperseg) == nperseg \div 2

\* 0.5 * (1 - Math.cos(2 * Math.PI * i / (nperseg - 1))); 0 / 0 for nperseg 1
welchWindow(nperseg) ==
    [k \in 1..nperseg |->
        IF nperseg = 1 THEN NaN
        ELSE RoundDiv(FP - CosTurn(k - 1, nperseg - 1), 2)]

\* Array.from({ length: nfft / 2 + 1 }, (_, i) => i * samplingRate / nfft):
\* the length is truncated to an integer, and 0 * samplingRate / 0 is NaN
welchFreqs(samplingRate, nfft) ==
    [k \in 1..((nfft + 2) \div 2) |->
        IF nfft = 0 THEN NaN ELSE RoundDiv((k - 1) * samplingRate * FP, nfft)]

\* real[j] * real[j] + imag[j] * imag[j], NaN where the bin does not exist
welchBinPower(X, j) ==
    LET re == At(X.real, j)
        im == At(X.imag, j)
    IN  IF IsNumber(re) /\ IsNumber(im) THEN MulFP(re, re) + MulFP(im, im)
        ELSE NaN

AddNum(a, b) == IF IsNumber(a) /\ IsNumber(b) THEN a + b ELSE NaN

\* the body of the segment loop: psd with the segment at i accumulated
welchAccumulate(data, i, nperseg, nfft, psd) ==
    LET window     == welchWindow(nperseg)
        paddedData == [k \in 1..nfft |->
                          IF k <= nperseg THEN MulFP(data[i + k], window[k])
                          ELSE 0]
        X          == fft(paddedData)
    IN  [j \in 1..Len(psd) |-> AddNum(psd[j], welchBinPower(X, j - 1))]

\* lines 285-294: the scaling by 1 / (samplingRate * windowPower * numSegments)
\* and the doubling of the bins between DC and Nyquist.  A window of power
\* 0 (nperseg 2) makes the scale Infinity and every bin 0 * Infinity = NaN.
welchScaled(psd, samplingRate, nperseg, numSegments) ==
    LET window      == welchWindow(nperseg)
        windowPower == SumSeq([k \in 1..nperseg |-> MulFP(window[k], window[k])])
    IN  IF numSegments = 0 THEN psd
        ELSE [j \in 1..Len(psd) |->
                 IF ~IsNumber(psd[j]) \/ windowPower = 0 THEN NaN
                 ELSE LET p == RoundDiv(psd[j] * FP,
                                        samplingRate * windowPower * numSegments)
                      IN  IF j > 1 /\ j < Len(psd) THEN 2 * p ELSE p]

\* the segment loop, for a hop that advances
RECURSIVE welchSegments(_, _, _, _, _)
welchSegments(data, i, nperseg, psd, numSegments) ==
    IF i + nperseg > Len(data) THEN [psd |-> psd, numSegments |-> numSegments]
    ELSE welchSegments(data, i + welchHopSize(nperseg), nperseg,
                       welchAccumulate(data, i, nperseg, welchNfft(nperseg), psd),
                       numSegments + 1)

calculateWelchPsd(data, samplingRate, npersegArg) ==
    LET nperseg == welchNperseg(Len(data), npersegArg)
        nfft    == welchNfft(nperseg)
    IN  IF welchReturnsEmpty(Len(data), npersegArg)
        THEN [kind |-> "return", freqs |-> <<>>, psd |-> <<>>]
        ELSE IF ~ArrayLengthOk(nfft + 2, 2)
             THEN Raise("RangeError: Invalid array length")
        ELSE IF welchHopSize(nperseg) = 0 /\ nperseg <= Len(data)
             THEN Diverge
        ELSE LET acc == welchSegments(data, 0, nperseg,
                                      [j \in 1..(nfft \div 2 + 1) |-> 0], 0)
             IN  [kind  |-> "return",
                  freqs |-> welchFreqs(samplingRate, nfft),
                  psd   |-> welchScaled(acc.psd, samplingRate, nperseg,
                                        acc.numSegments)]

(***************************************************************************)
(* 10 * Math.log10(x) of a fixed-point x > 0, in whole decibels (rounded   *)
(* down), as a fixed-point number.                                         *)
(***************************************************************************)
\* 10^(j / 10) for j = 0..9, FP-scaled
DecibelSteps == <<1000, 1259, 1585, 1995, 2512, 3162, 3981, 5012, 6310, 7943>>

RECURSIVE DecibelsOf(_)
DecibelsOf(x) ==
    IF x >= 10 * FP THEN 10 + DecibelsOf(x \div 10)
    ELSE IF x < FP THEN DecibelsOf(10 * x) - 10
    ELSE CHOOSE j \in 0..9 :
             /\ DecibelSteps[j + 1] <= x
             /\ j < 9 => x < DecibelSteps[j + 2]

\* JavaScript's -Infinity
NegInfinity == -999997

\* 10 * Math.log10(x + floor) where floor (1e-15 or 1e-12) is floorDb decibels
toDb(x, floorDb) == IF ~IsNumber(x) THEN NaN
                    ELSE IF x <= 0 THEN floorDb * FP
                    ELSE DecibelsOf(x) * FP

(***************************************************************************)
(* estimateNoise                                                           *)
(***************************************************************************)
\* [...a].sort((a, b) => a - b)
RECURSIVE InsertSorted(_, _)
InsertSorted(s, x) == IF s = <<>> THEN <<x>>
                      ELSE IF x < Head(s) THEN <<x>> \o s
                      ELSE <<Head(s)>> \o InsertSorted(Tail(s), x)
RECURSIVE SortAscending(_)
SortAscending(s) == IF s = <<>> THEN <<>>
                    ELSE InsertSorted(SortAscending(Tail(s)), Head(s))

\* data.slice(start, end)
Slice(data, start, end) ==
    LET lo == Min(Max(start, 0), Len(data))
        hi == Min(Max(end, lo), Len(data))
    IN  [k \in 1..(hi - lo) |-> data[lo + k]]

\* Math.floor(frameLengthSec * samplingRate), frameLengthSec = ticks / TimeDen
noiseFrameLength(ticks, samplingRate) == (ticks * samplingRate) \div TimeDen

\* Math.floor(frameLength / 2)
noiseHopLength(frameLength) == frameLength \div 2

\* frame.reduce((sum, val) => sum + val * val, 0) / frameLength
noiseFrameEnergy(frame, frameLength) ==
    IF frameLength = 0 THEN NaN
    ELSE RoundDiv(SumSeq([k \in 1..Len(frame) |-> MulFP(frame[k], frame[k])]),
                  frameLength)

\* (i + frameLength / 2) / samplingRate
noiseFrameTime(i, frameLength, samplingRate) ==
    RoundDiv((2 * i + frameLength) * FP, 2 * samplingRate)

\* sortedEnergies[Math.floor(percentile / 100 * sortedEnergies.length)]
noiseThreshold(frameEnergies, percentile) ==
    LET sortedEnergies == SortAscending(frameEnergies)
    IN  At(sortedEnergies, (percentile * Len(sortedEnergies)) \div 100)

\* frameEnergies.map(e => e <= threshold): no number is <= undefined
noiseMaskOf(frameEnergies, threshold) ==
    [k \in 1..Len(frameEnergies) |->
        IsNumber(threshold) /\ IsNumber(frameEnergies[k])
            /\ frameEnergies[k] <= threshold]

\* lines 338-346: the samples of the noise frames, frame after frame
RECURSIVE noisePooled(_, _, _, _, _)
noisePooled(data, noiseMask, i, frameLength, hopLength) ==
    IF i >= Len(noiseMask) THEN <<>>
    ELSE (IF noiseMask[i + 1]
          THEN Slice(data, i * hopLength, i * hopLength + frameLength)
          ELSE <<>>)
         \o noisePooled(data, noiseMask, i + 1, frameLength, hopLength)

\* the default nperseg of calculateWelchPsd
DefaultNperseg == 256

\* the profile returned when there is no frame (lines 317-329)
noiseDegenerate ==
    [kind |-> "return", noise_power_db |-> NegInfinity, noise_percentage |-> 0,
     noise_samples_count |-> 0, freqs |-> <<>>, psd_db |-> <<>>,
     frameEnergies |-> <<>>, frameTimes |-> <<>>, threshold |-> 0,
     noiseMask |-> <<>>]

\* lines 317-365: what estimateNoise does once its frame loop has ended
noiseProfile(data, samplingRate, frameLength, percentile, frameEnergies, frameTimes) ==
    IF frameEnergies = <<>> THEN noiseDegenerate
    ELSE LET threshold    == noiseThreshold(frameEnergies, percentile)
             noiseMask    == noiseMaskOf(frameEnergies, threshold)
             noiseSamples == noisePooled(data, noiseMask, 0, frameLength,
                                         noiseHopLength(frameLength))
             noisePower   == IF Len(noiseSamples) > 0
                             THEN RoundDiv(SumSeq([k \in 1..Len(noiseSamples) |->
                                              MulFP(noiseSamples[k], noiseSamples[k])]),
                                           Len(noiseSamples))
                             ELSE 0
             welch        == IF Len(noiseSamples) > 0
                             THEN calculateWelchPsd(noiseSamples, samplingRate,
                                                    DefaultNperseg)
                             ELSE [kind |-> "return", freqs |-> <<>>, psd |-> <<>>]
         IN  IF welch.kind # "return" THEN welch
             ELSE [kind |-> "return",
                   noise_power_db |-> toDb(noisePower, -120),
                   noise_percentage |->
                       RoundDiv(Len(noiseSamples) * 100 * FP, Len(data)),
                   noise_samples_count |-> Len(noiseSamples),
                   freqs |-> welch.freqs,
                   psd_db |-> [k \in 1..Len(welch.psd) |-> toDb(welch.psd[k], -150)],
                   frameEnergies |-> frameEnergies,
                   frameTimes |-> frameTimes,
                   threshold |-> threshold,
                   noiseMask |-> noiseMask]

(***************************************************************************)
(* The frame size of detectTonals and of calculateDoaVsTime.               *)
(***************************************************************************)
\* Math.pow(2, Math.round(Math.log2(x))) for x = frameDuration * samplingRate,
\* an integer >= 0: Math.log2(0) is -Infinity and 2^-Infinity is 0; for
\* x >= 1 the exponent k is the one with 2^(k - 1/2) <= x < 2^(k + 1/2)
frameSizeOf(x) ==
    IF x = 0 THEN 0
    ELSE Pow2(CHOOSE k \in 0..x : Pow2(2 * k) <= 2 * x * x /\ x * x < Pow2(2 * k + 1))

\* Math.floor(frameSize / 4)
frameHopSize(frameSize) == frameSize \div 4

(***************************************************************************)
(* detectTonals                                                            *)
(***************************************************************************)
\* const noiseWindowHz = 50
noiseWindowHz == 50
\* const freqTolerance = 50
freqTolerance == 50

\* [...values].sort((a, b) => a - b)[Math.floor(values.length / 2)]
MedianOf(values) == SortAscending(values)[Len(values) \div 2 + 1]

RECURSIVE SeqFromTo(_, _, _)
\* <<s[lo], ..., s[hi]>> in 0-based indices, empty when lo > hi
SeqFromTo(s, lo, hi) == IF lo > hi THEN <<>>
                        ELSE <<s[lo + 1]>> \o SeqFromTo(s, lo + 1, hi)

\* lines 400-422: the noise floor around the peak at bin k
tonalNoiseFloor(psd_db, k, samplingRate, frameSize) ==
    LET noiseWindowBins == RoundDiv(noiseWindowHz * frameSize, samplingRate)
        noiseEstimateValues ==
            SeqFromTo(psd_db, Max(0, k - noiseWindowBins), k - 2)
                \o SeqFromTo(psd_db, k + 2, Min(Len(psd_db) - 1, k + noiseWindowBins))
    IN  IF Len(noiseEstimateValues) > 5 THEN MedianOf(noiseEstimateValues)
        ELSE MedianOf(psd_db)

\* a comparison of JavaScript numbers: false when either is NaN
Greater(a, b) == IsNumber(a) /\ IsNumber(b) /\ a > b

\* lines 395-430: for (let k = 1; k < psd_db.length - 1; k++)
RECURSIVE tonalPeaks(_, _, _, _, _, _, _)
tonalPeaks(freqs, psd_db, k, samplingRate, frameSize, freqRange, minSnrDb) ==
    IF k >= Len(psd_db) - 1 THEN <<>>
    ELSE LET inRange == /\ IsNumber(freqs[k + 1])
                        /\ freqs[k + 1] >= freqRange[1] * FP
                        /\ freqs[k + 1] <= freqRange[2] * FP
             isPeak  == /\ Greater(psd_db[k + 1], psd_db[k])
                        /\ Greater(psd_db[k + 1], psd_db[k + 2])
             snr     == psd_db[k + 1]
                            - tonalNoiseFloor(psd_db, k, samplingRate, frameSize)
             found   == IF inRange /\ isPeak /\ snr >= minSnrDb * FP
                        THEN <<[frequency |-> freqs[k + 1],
                                power     |-> psd_db[k + 1],
                                snr       |-> snr]>>
                        ELSE <<>>
         IN  found \o tonalPeaks(freqs, psd_db, k + 1, samplingRate, frameSize,
                                 freqRange, minSnrDb)

\* lines 390-431: the body of the frame loop; what calculateWelchPsd raises
\* or a call of it that does not come back is the frame's outcome
tonalFrame(frameData, samplingRate, frameSize, freqRange, minSnrDb) ==
    LET welch == calculateWelchPsd(frameData, samplingRate, frameSize) IN
    IF welch.kind # "return" THEN welch
    ELSE LET psd_db == [k \in 1..Len(welch.psd) |-> toDb(welch.psd[k], -150)]
         IN  [kind   |-> "return",
              tonals |-> tonalPeaks(welch.freqs, psd_db, 1, samplingRate,
                                    frameSize, freqRange, minSnrDb)]

\* persistentTonals is an object whose keys are Math.round(frequency): a
\* for-in loop visits such integer keys in ascending order.  It is held as
\* the sequence of its entries [key, tonals], ascending by key.
RECURSIVE trackInsert(_, _)
trackInsert(bins, entry) ==
    IF bins = <<>> THEN <<entry>>
    ELSE IF entry.key < Head(bins).key THEN <<entry>> \o bins
    ELSE <<Head(bins)>> \o trackInsert(Tail(bins), entry)

\* lines 439-450: one tonal joins the first bin visited whose key is within
\* the tolerance, or opens the bin Math.round(tonal.frequency)
trackTonal(bins, tonal) ==
    LET near == {b \in 1..Len(bins) :
                    Abs(tonal.frequency - bins[b].key * FP) < freqTolerance * FP}
    IN  IF near # {}
        THEN LET b == CHOOSE x \in near : \A y \in near : x <= y
             IN  [bins EXCEPT ![b].tonals = Append(@, tonal)]
        ELSE trackInsert(bins, [key    |-> RoundDiv(tonal.frequency, FP),
                                tonals |-> <<tonal>>])

RECURSIVE trackFrame(_, _)
trackFrame(bins, frame) ==
    IF frame = <<>> THEN bins
    ELSE trackFrame(trackTonal(bins, Head(frame)), Tail(frame))

\* lines 438-452: for (const frame of allFramesTonals)
RECURSIVE trackFrames(_, _)
trackFrames(bins, allFramesTonals) ==
    IF allFramesTonals = <<>> THEN bins
    ELSE trackFrames(trackFrame(bins, Head(allFramesTonals)), Tail(allFramesTonals))

\* the sum left undivided
SumNotMean(values) == SumSeq(values)
\* values.reduce((sum, t) => sum + t, 0) / n_detections
MeanOf(values) == RoundDiv(SumSeq(values), Len(values))

\* lines 454-464: the bins with at least minFramesPresent detections
RECURSIVE persistentOf(_, _)
persistentOf(bins, minFramesPresent) ==
    IF bins = <<>> THEN <<>>
    ELSE LET tonals == Head(bins).tonals
             n      == Len(tonals)
         IN  (IF n >= minFramesPresent
              THEN <<[frequency_mean |-> MeanOf([k \in 1..n |-> tonals[k].frequency]),
                      snr_mean       |-> MeanOf([k \in 1..n |-> tonals[k].snr]),
                      power_mean     |-> MeanOf([k \in 1..n |-> tonals[k].power]),
                      n_detections   |-> n]>>
              ELSE <<>>)
             \o persistentOf(Tail(bins), minFramesPresent)

\* lines 434-466: what detectTonals does once its frame loop has ended
detectTonalsResult(allFramesTonals, minFramesPresent) ==
    [kind    |-> "return",
     tonals  |-> persistentOf(trackFrames(<<>>, allFramesTonals), minFramesPresent)]

(***************************************************************************)
(* calculateDoaVsTime                                                      *)
(***************************************************************************)
\* Math.atan in degrees for the ratios k / 16, k = 0..16, FP-scaled
AtanSteps == <<0, 3576, 7125, 10620, 14036, 17354, 20556, 23629, 26565,
               29358, 32005, 34509, 36870, 39094, 41186, 43152, 45000>>

\* atan(lo / hi) in degrees for 0 <= lo <= hi, hi > 0
AtanRatioDeg(lo, hi) ==
    LET pos  == 16 * lo
        k    == pos \div hi
        frac == pos % hi
    IN  IF k >= 16 THEN AtanSteps[17]
        ELSE AtanSteps[k + 1]
                 + RoundDiv((AtanSteps[k + 2] - AtanSteps[k + 1]) * frac, hi)

\* Math.atan2(y, x) * 180 / Math.PI
Atan2Deg(y, x) ==
    IF ~IsNumber(y) \/ ~IsNumber(x) THEN NaN
    ELSE IF x = 0 /\ y = 0 THEN 0
    ELSE LET ax    == Abs(x)
             ay    == Abs(y)
             acute == IF ay <= ax THEN AtanRatioDeg(ay, ax)
                      ELSE 90 * FP - AtanRatioDeg(ax, ay)
             upper == IF x < 0 THEN 180 * FP - acute ELSE acute
         IN  IF y < 0 THEN -upper ELSE upper

\* arithmetic on JavaScript numbers: NaN once an operand is NaN or undefined
MulNum(a, b) == IF IsNumber(a) /\ IsNumber(b) THEN MulFP(a, b) ELSE NaN
SubNum(a, b) == IF IsNumber(a) /\ IsNumber(b) THEN a - b ELSE NaN

\* fft of a frame that may hold undefined samples (a channel shorter than
\* the hydrophone's).  The undefined samples are a suffix of the frame, so
\* the last one is among them; every butterfly that reads it yields NaN in
\* both outputs, real and imaginary, and after the last stage no bin is
\* left that does not depend on it.  A frame of one sample is returned as
\* it is, with a zero imaginary part.
fftOfFrame(frame) ==
    IF \A k \in 1..Len(frame) : IsNumber(frame[k]) THEN fft(frame)
    ELSE [kind |-> "return",
          real |-> [k \in 1..Len(frame) |-> IF Len(frame) = 1 THEN frame[k] ELSE NaN],
          imag |-> [k \in 1..Len(frame) |-> IF Len(frame) = 1 THEN 0 ELSE NaN]]

\* Math.max(0, Math.min(1, c))
Clamp01(c) == IF ~IsNumber(c) THEN NaN ELSE Max(0, Min(FP, c))

\* (|G|^2) / (S_pp * S_vv + 1e-9)
doaCoherence(G, S_pp, S_vv) ==
    LET num == AddNum(MulNum(G.real, G.real), MulNum(G.imag, G.imag))
        den == MulNum(S_pp, S_vv)
    IN  IF ~IsNumber(num) \/ ~IsNumber(den) THEN NaN
        ELSE IF den = 0 THEN 0
        ELSE RoundDiv(num * FP, den)

\* Math.round(tonalFreq * frameSize / samplingRate)
doaFreqBin(tonalFreq, frameSize, samplingRate) ==
    RoundDiv(tonalFreq * frameSize, samplingRate)

\* (i + frameSize / 2) / samplingRate
doaFrameTime(i, frameSize, samplingRate) ==
    RoundDiv((2 * i + frameSize) * FP, 2 * samplingRate)

\* the azimuth left as Math.atan2 gives it, in (-180, 180]
doaUnnormalized(deg) == deg
\* (doaRad * 180 / Math.PI + 360) % 360
doaNormalize(deg) == IF IsNumber(deg) THEN (deg + 360 * FP) % (360 * FP) ELSE NaN

\* lines 493-534: the body of the frame loop; the points of the frame at i
\* (one point, or none when the azimuth or the confidence is not finite)
doaFrame(hData, vxData, vyData, samplingRate, tonalFreq, frameSize, i) ==
    LET freqBin == doaFreqBin(tonalFreq, frameSize, samplingRate)
        hFft  == fftOfFrame([j \in 1..frameSize |-> At(hData, i + j - 1)])
        vxFft == fftOfFrame([j \in 1..frameSize |-> At(vxData, i + j - 1)])
        vyFft == fftOfFrame([j \in 1..frameSize |-> At(vyData, i + j - 1)])
        h  == [real |-> At(hFft.real, freqBin),  imag |-> At(hFft.imag, freqBin)]
        vx == [real |-> At(vxFft.real, freqBin), imag |-> At(vxFft.imag, freqBin)]
        vy == [real |-> At(vyFft.real, freqBin), imag |-> At(vyFft.imag, freqBin)]
        G_ph == [real |-> AddNum(MulNum(vx.real, h.real), MulNum(vx.imag, h.imag)),
                 imag |-> SubNum(MulNum(vx.imag, h.real), MulNum(vx.real, h.imag))]
        G_pv == [real |-> AddNum(MulNum(vy.real, h.real), MulNum(vy.imag, h.imag)),
                 imag |-> SubNum(MulNum(vy.imag, h.real), MulNum(vy.real, h.imag))]
        doaRadDeg == Atan2Deg(G_pv.real, G_ph.real)
        doaDeg == doaNormalize(doaRadDeg)
        S_pp == AddNum(MulNum(h.real, h.real), MulNum(h.imag, h.imag))
        S_xx == AddNum(MulNum(vx.real, vx.real), MulNum(vx.imag, vx.imag))
        S_yy == AddNum(MulNum(vy.real, vy.real), MulNum(vy.imag, vy.imag))
        coherence_h == Clamp01(doaCoherence(G_ph, S_pp, S_xx))
        coherence_v == Clamp01(doaCoherence(G_pv, S_pp, S_yy))
        confidence  == IF IsNumber(coherence_h) /\ IsNumber(coherence_v)
                       THEN ISqrt(coherence_h * coherence_v)
                       ELSE NaN
    IN  IF IsNumber(doaDeg) /\ IsNumber(confidence)
        THEN <<[time |-> doaFrameTime(i, frameSize, samplingRate),
                doa |-> doaDeg, confidence |-> confidence]>>
        ELSE <<>>

(***************************************************************************)
(* The filter stage: designButterworthFilter, applyIIRFilter, applyFilter. *)
(* filterSettings.cutoff is a number, <<c>>, or a pair, <<low, high>>, in  *)
(* Hz; the coefficients are fixed-point.                                   *)
(***************************************************************************)
\* Math.sqrt(2)
Sqrt2 == ISqrt(2 * FP * FP)

\* 1 / Math.tan(wc / 2) with wc = 2 pi cutoff / samplingRate, for
\* 0 < cutoff < samplingRate, where the tangent is neither 0 nor infinite
filterC(cutoff, samplingRate) ==
    RoundDiv(CosTurn(cutoff, 2 * samplingRate) * FP, SinTurn(cutoff, 2 * samplingRate))

\* getCoeffs
getCoeffs(cutoff, samplingRate) ==
    LET C      == filterC(cutoff, samplingRate)
        C2     == MulFP(C, C)
        sqrt2C == MulFP(Sqrt2, C)
    IN  [a0 |-> C2 + sqrt2C + FP, a1 |-> 2 * (FP - C2), a2 |-> C2 - sqrt2C + FP]

\* v / a0 of two fixed-point numbers, a0 # 0
DivFP(v, a0) == IF a0 > 0 THEN RoundDiv(v * FP, a0) ELSE RoundDiv(-v * FP, -a0)

\* the filter that applyFilter passes through: { b: [1], a: [1] }
passThroughCoeffs == [b |-> <<FP>>, a |-> <<FP>>]

\* lowCutoff <= 0 || highCutoff <= lowCutoff || highCutoff >= samplingRate / 2
bandpassRejects(lowCutoff, highCutoff, samplingRate) ==
    lowCutoff <= 0 \/ highCutoff <= lowCutoff \/ 2 * highCutoff >= samplingRate

designButterworthFilter(type, cutoff, samplingRate) ==
    IF type = "lowpass" /\ Len(cutoff) = 1
    THEN LET c == getCoeffs(cutoff[1], samplingRate)
         IN  [b |-> <<DivFP(FP, c.a0), DivFP(2 * FP, c.a0), DivFP(FP, c.a0)>>,
              a |-> <<FP, DivFP(c.a1, c.a0), DivFP(c.a2, c.a0)>>]
    ELSE IF type = "highpass" /\ Len(cutoff) = 1
    THEN LET c  == getCoeffs(cutoff[1], samplingRate)
             C  == filterC(cutoff[1], samplingRate)
             C2 == MulFP(C, C)
         IN  [b |-> <<DivFP(C2, c.a0), DivFP(-2 * C2, c.a0), DivFP(C2, c.a0)>>,
              a |-> <<FP, DivFP(c.a1, c.a0), DivFP(c.a2, c.a0)>>]
    ELSE IF type = "bandpass" /\ Len(cutoff) = 2
    THEN LET lowCutoff  == cutoff[1]
             highCutoff == cutoff[2]
         IN  IF bandpassRejects(lowCutoff, highCutoff, samplingRate)
             THEN passThroughCoeffs
             ELSE LET f0     == ISqrt(lowCutoff * highCutoff * FP * FP)
                      Q      == RoundDiv(f0, highCutoff - lowCutoff)
                      alpha  == DivFP(SinTurn(f0, FP * samplingRate), 2 * Q)
                      a0_val == FP + alpha
                      a1     == -2 * CosTurn(f0, FP * samplingRate)
                      a2     == FP - alpha
                  IN  [b |-> <<DivFP(alpha, a0_val), DivFP(0, a0_val),
                               DivFP(-alpha, a0_val)>>,
                       a |-> <<FP, DivFP(a1, a0_val), DivFP(a2, a0_val)>>]
    ELSE passThroughCoeffs

\* the sum over j in from..(n - 1), i - j >= 0, of coeff[j] * signal[i - j]
RECURSIVE iirTaps(_, _, _, _, _)
iirTaps(coeff, signal, i, j, n) ==
    IF j >= n THEN 0
    ELSE (IF i - j >= 0 THEN MulFP(coeff[j + 1], signal[i - j + 1]) ELSE 0)
         + iirTaps(coeff, signal, i, j + 1, n)

\* applyIIRFilter with output[0..i-1] computed
RECURSIVE iirFrom(_, _, _, _, _)
iirFrom(data, b, a, output, i) ==
    IF i >= Len(data) THEN output
    ELSE LET y_i == iirTaps(b, data, i, 0, Len(b)) - iirTaps(a, output, i, 1, Len(a))
         IN  iirFrom(data, b, a, Append(output, y_i), i + 1)

applyIIRFilter(data, b, a) == iirFrom(data, b, a, <<>>, 0)

applyFilter(channelData, filterType, cutoff, samplingRate) ==
    IF filterType = "none" THEN channelData
    ELSE LET f == designButterworthFilter(filterType, cutoff, samplingRate)
         IN  IF Len(f.b) = 1 /\ Len(f.a) = 1 /\ f.b[1] = FP /\ f.a[1] = FP
             THEN channelData
             ELSE applyIIRFilter(channelData, f.b, f.a)

(***************************************************************************)
(* getInterpolatedOrientation.  An orientation sample is a record [time,   *)
(* roll, pitch, yaw], the time in seconds and the angles in degrees, all   *)
(* fixed-point.                                                            *)
(***************************************************************************)
\* line 546 with < for <=
orientBeforeFirstStrict(time, data) == time < data[1].time
\* line 546: time <= data[0].time
orientBeforeFirst(time, data) == time <= data[1].time

\* line 547: time >= data[data.length - 1].time
orientAfterLast(time, data) == time >= data[Len(data)].time

\* line 552 with < for <=
orientSearchRightStrict(sampleTime, time) == sampleTime < time
\* line 552: data[mid].time <= time
orientSearchRight(sampleTime, time) == sampleTime <= time

\* { roll: p.roll, pitch: p.pitch, yaw: p.yaw }
orientAnglesOf(p) == [roll |-> p.roll, pitch |-> p.pitch, yaw |-> p.yaw]

\* lines 564-569: p1.a + t * (p2.a - p1.a) with t = (time - p1.time) / (p2.time - p1.time)
orientLerp(time, t1, t2, a1, a2) == a1 + MulFP(RoundDiv((time - t1) * FP, t2 - t1), a2 - a1)

\* lines 560-571: what is returned once the search has ended at index
orientInterpolate(time, data, index) ==
    LET p1 == data[index + 1] IN
    IF index + 1 >= Len(data) THEN p1
    ELSE LET p2 == data[index + 2] IN
         IF p2.time = p1.time THEN p1
         ELSE [roll  |-> orientLerp(time, p1.time, p2.time, p1.roll, p2.roll),
               pitch |-> orientLerp(time, p1.time, p2.time, p1.pitch, p2.pitch),
               yaw   |-> orientLerp(time, p1.time, p2.time, p1.yaw, p2.yaw)]

\* lines 549-558: the binary search, run to its end
RECURSIVE orientSearch(_, _, _, _, _)
orientSearch(data, time, low, high, index) ==
    IF low > high THEN index
    ELSE LET mid == (low + high) \div 2 IN
         IF orientSearchRight(data[mid + 1].time, time)
         THEN orientSearch(data, time, mid + 1, high, mid)
         ELSE orientSearch(data, time, low, mid - 1, index)

\* getInterpolatedOrientation as a whole
getInterpolatedOrientation(time, data) ==
    IF data = <<>> THEN [roll |-> 0, pitch |-> 0, yaw |-> 0]
    ELSE IF orientBeforeFirst(time, data) THEN orientAnglesOf(data[1])
    ELSE IF orientAfterLast(time, data) THEN orientAnglesOf(data[Len(data)])
    ELSE orientInterpolate(time, data, orientSearch(data, time, 0, Len(data) - 1, -1))

(***************************************************************************)
(* correctDoa and the 3 x 3 matrix utilities.  Angles are fixed-point      *)
(* degrees, matrix entries fixed-point numbers.                            *)
(***************************************************************************)
\* JavaScript's null
Null == -999996

\* Math.cos and Math.sin of an angle in degrees
CosDeg(deg) == CosTurn(deg, 360 * FP)
SinDeg(deg) == SinTurn(deg, 360 * FP)

\* invert3x3: null when the determinant is 0
invert3x3(A) ==
    LET a == A[1][1]  b == A[1][2]  c == A[1][3]
        d == A[2][1]  e == A[2][2]  f == A[2][3]
        g == A[3][1]  h == A[3][2]  i == A[3][3]
        det == MulFP(a, MulFP(e, i) - MulFP(f, h))
                 - MulFP(b, MulFP(d, i) - MulFP(f, g))
                 + MulFP(c, MulFP(d, h) - MulFP(e, g))
        invDet == DivFP(FP, det)
    IN  IF det = 0 THEN <<>>
        ELSE << <<MulFP(MulFP(e, i) - MulFP(f, h), invDet),
                  MulFP(MulFP(c, h) - MulFP(b, i), invDet),
                  MulFP(MulFP(b, f) - MulFP(c, e), invDet)>>,
                <<MulFP(MulFP(f, g) - MulFP(d, i), invDet),
                  MulFP(MulFP(a, i) - MulFP(c, g), invDet),
                  MulFP(MulFP(c, d) - MulFP(a, f), invDet)>>,
                <<MulFP(MulFP(d, h) - MulFP(e, g), invDet),
                  MulFP(MulFP(b, g) - MulFP(a, h), invDet),
                  MulFP(MulFP(a, e) - MulFP(b, d), invDet)>> >>

matmul3x3(A, B) ==
    [i \in 1..3 |-> [j \in 1..3 |->
        MulFP(A[i][1], B[1][j]) + MulFP(A[i][2], B[2][j]) + MulFP(A[i][3], B[3][j])]]

matVecMul3x3(A, x) ==
    [i \in 1..3 |-> MulFP(A[i][1], x[1]) + MulFP(A[i][2], x[2]) + MulFP(A[i][3], x[3])]

\* correctDoa, elevationFixed at its default 0
correctDoa(doaAzimuth, imuRoll, imuPitch, imuYaw) ==
    LET vector  == <<CosDeg(doaAzimuth), SinDeg(doaAzimuth), SinDeg(0)>>
        cosY == CosDeg(imuYaw)    sinY == SinDeg(imuYaw)
        R_yaw   == << <<cosY, -sinY, 0>>, <<sinY, cosY, 0>>, <<0, 0, FP>> >>
        cosP == CosDeg(imuPitch)  sinP == SinDeg(imuPitch)
        R_pitch == << <<cosP, 0, sinP>>, <<0, FP, 0>>, <<-sinP, 0, cosP>> >>
        cosR == CosDeg(imuRoll)   sinR == SinDeg(imuRoll)
        R_roll  == << <<FP, 0, 0>>, <<0, cosR, -sinR>>, <<0, sinR, cosR>> >>
        R_total   == matmul3x3(matmul3x3(R_yaw, R_pitch), R_roll)
        R_inverse == invert3x3(R_total)
    IN  IF R_inverse = <<>> THEN doaAzimuth
        ELSE LET corrected_vector == matVecMul3x3(R_inverse, vector)
                 corrected_azimuth == Atan2Deg(corrected_vector[2], corrected_vector[1])
             IN  (corrected_azimuth + 360 * FP) % (360 * FP)

\* calculateDoaVsTime as a whole: the frames from i on
RECURSIVE doaFramesFrom(_, _, _, _, _, _, _)
doaFramesFrom(hData, vxData, vyData, samplingRate, tonalFreq, frameSize, i) ==
    IF i + frameSize <= Len(hData)
    THEN doaFrame(hData, vxData, vyData, samplingRate, tonalFreq, frameSize, i)
           \o doaFramesFrom(hData, vxData, vyData, samplingRate, tonalFreq, frameSize,
                            i + frameHopSize(frameSize))
    ELSE <<>>

\* frameProduct is frameDuration * samplingRate
calculateDoaVsTime(hData, vxData, vyData, samplingRate, tonalFreq, frameProduct) ==
    LET frameSize == frameSizeOf(frameProduct) IN
    IF Len(hData) < frameSize THEN [kind |-> "return", points |-> <<>>]
    ELSE IF frameHopSize(frameSize) = 0 THEN Diverge
    ELSE [kind |-> "return",
          points |-> doaFramesFrom(hData, vxData, vyData, samplingRate, tonalFreq,
                                   frameSize, 0)]

(***************************************************************************)
(* State.                                                                  *)
(***************************************************************************)
VARIABLES
    \* a call of fft or of calculateFFT: its arguments, which of the two was
    \* called, and what it returned or raised
    ft_data, ft_samplingRate, ft_op, ft_result,
    \* a call of calculateWelchPsd: its arguments, where it stands, the
    \* locals of its segment loop, and what it returned or raised
    wl_data, wl_samplingRate, wl_npersegArg, wl_pc,
    wl_nperseg, wl_i, wl_psd, wl_numSegments, wl_result,
    \* a call of estimateNoise: its arguments (frameLengthSec in ticks of
    \* 1 / TimeDen s), where it stands, the locals of its frame loop, and
    \* what it returned or raised
    en_data, en_samplingRate, en_frameTicks, en_percentile, en_pc,
    en_i, en_frameEnergies, en_frameTimes, en_result,
    \* a call of detectTonals: its arguments (frameDuration as the product
    \* frameDuration * samplingRate), where it stands, the locals of its
    \* frame loop, and what it returned or raised
    dt_data, dt_samplingRate, dt_frameProduct, dt_freqRange, dt_minSnrDb,
    dt_minFramesPresent, dt_pc, dt_i, dt_allFramesTonals, dt_result,
    \* a call of calculateDoaVsTime, likewise
    da_hData, da_vxData, da_vyData, da_samplingRate, da_tonalFreq,
    da_frameProduct, da_pc, da_i, da_doaPoints, da_result,
    \* a call of applyFilter: its arguments and what it returned
    fl_data, fl_filterType, fl_cutoff, fl_samplingRate, fl_result,
    \* detectTonals from line 434 on, the cross-frame tracking: the frames'
    \* detections, minFramesPresent, where it stands (the frame and the tonal
    \* in it that come next), the object persistentTonals, and the result.
    \* tk_opened is a history variable: the keys of persistentTonals in the
    \* order in which line 449 created them.
    tk_allFramesTonals, tk_minFramesPresent, tk_pc, tk_frame, tk_tonal,
    tk_persistentTonals, tk_opened, tk_result,
    \* a call of getInterpolatedOrientation: its arguments, where it stands,
    \* the locals of its binary search, and what it returned
    or_time, or_data, or_pc, or_low, or_high, or_index, or_result,
    \* App's state: whether signalData is set, whether error is set, the
    \* channel roles, orientationData (loaded or null, and the samples), the
    \* two time offsets in fixed-point seconds
    ap_signalData, ap_error, ap_channelRoles, ap_orientationData,
    ap_analysisStartTime, ap_orientationStartTimeOffset,
    \* the state of one ChannelAnalysis under App: the active tab and the
    \* persistent tonals' frequencies; whether its DoaAnalysisTab is mounted,
    \* and that tab's selected tonal, pending timer and doaData
    ap_activeTab, ap_persistentTonals, ap_doaMounted, ap_selectedTonalFreq,
    ap_timer, ap_doaData,
    \* more of the DoA tab: frameDuration, isCalculating, what the pending
    \* timer's callback has closed over, and whether a callback was entered
    \* that never returns
    ap_frameDuration, ap_isCalculating, ap_timerArgs, ap_hung,
    \* more of App's state: selectedChannels, filterSettings, isLoading and
    \* processedData, what each pending timer of handleApplyFilters has
    \* captured, and the calls of handleOrientationUpload awaiting parseXlsx
    ap_selectedChannels, ap_filterSettings, ap_isLoading, ap_processedData,
    ap_filterJobs, ap_parsing,
    \* one SpectrogramPlot: whether it is mounted, its props (data by its
    \* length) and its state, the workers alive (each with the inputs posted
    \* to it and how far it is), and workerRef.current as a position in them,
    \* 0 for null
    sp_mounted, sp_dataLength, sp_samplingRate, sp_windowSize, sp_hopSize,
    sp_stftData, sp_isCalculating, sp_error, sp_workers, sp_workerRef

ftVars == <<ft_data, ft_samplingRate, ft_op, ft_result>>
wlVars == <<wl_data, wl_samplingRate, wl_npersegArg, wl_pc,
            wl_nperseg, wl_i, wl_psd, wl_numSegments, wl_result>>

enVars == <<en_data, en_samplingRate, en_frameTicks, en_percentile, en_pc,
            en_i, en_frameEnergies, en_frameTimes, en_result>>

dtVars == <<dt_data, dt_samplingRate, dt_frameProduct, dt_freqRange, dt_minSnrDb,
            dt_minFramesPresent, dt_pc, dt_i, dt_allFramesTonals, dt_result>>
daVars == <<da_hData, da_vxData, da_vyData, da_samplingRate, da_tonalFreq,
            da_frameProduct, da_pc, da_i, da_doaPoints, da_result>>

flVars == <<fl_data, fl_filterType, fl_cutoff, fl_samplingRate, fl_result>>

tkVars == <<tk_allFramesTonals, tk_minFramesPresent, tk_pc, tk_frame, tk_tonal,
            tk_persistentTonals, tk_opened, tk_result>>

orVars == <<or_time, or_data, or_pc, or_low, or_high, or_index, or_result>>

\* App's own state, and the state of the components it renders
loadVars == <<ap_selectedChannels, ap_filterSettings, ap_isLoading, ap_processedData,
              ap_filterJobs, ap_parsing>>
appVars == <<ap_signalData, ap_error, ap_channelRoles, ap_orientationData,
             ap_analysisStartTime, ap_orientationStartTimeOffset, loadVars>>
viewVars == <<ap_activeTab, ap_persistentTonals, ap_doaMounted, ap_selectedTonalFreq,
              ap_timer, ap_doaData, ap_frameDuration, ap_isCalculating, ap_timerArgs,
              ap_hung>>
apVars == <<appVars, viewVars>>

spVars == <<sp_mounted, sp_dataLength, sp_samplingRate, sp_windowSize, sp_hopSize,
            sp_stftData, sp_isCalculating, sp_error, sp_workers, sp_workerRef>>

vars == <<ftVars, wlVars, enVars, dtVars, daVars, flVars, tkVars, orVars, apVars, spVars>>

\* what a component's actions leave alone: the other components
ftOthers == <<wlVars, enVars, dtVars, daVars, flVars, tkVars, orVars, apVars, spVars>>
wlOthers == <<ftVars, enVars, dtVars, daVars, flVars, tkVars, orVars, apVars, spVars>>
enOthers == <<ftVars, wlVars, dtVars, daVars, flVars, tkVars, orVars, apVars, spVars>>
dtOthers == <<ftVars, wlVars, enVars, daVars, flVars, tkVars, orVars, apVars, spVars>>
daOthers == <<ftVars, wlVars, enVars, dtVars, flVars, tkVars, orVars, apVars, spVars>>
flOthers == <<ftVars, wlVars, enVars, dtVars, daVars, tkVars, orVars, apVars, spVars>>
tkOthers == <<ftVars, wlVars, enVars, dtVars, daVars, flVars, orVars, apVars, spVars>>
orOthers == <<ftVars, wlVars, enVars, dtVars, daVars, flVars, tkVars, apVars, spVars>>
apOthers == <<ftVars, wlVars, enVars, dtVars, daVars, flVars, tkVars, orVars, spVars>>
spOthers == <<ftVars, wlVars, enVars, dtVars, daVars, flVars, tkVars, orVars, apVars>>

\* the sample values signals are drawn from (fixed point: -1, 0, 1)
SampleValues == {-FP, 0, FP}
\* the sampling rates signals are drawn with, in Hz
SampleRates == {1, 2}

RECURSIVE SeqsOfLen(_, _)
SeqsOfLen(S, n) == IF n = 0 THEN {<<>>}
                   ELSE {Append(s, x) : s \in SeqsOfLen(S, n - 1), x \in S}
SeqsUpTo(S, n) == UNION {SeqsOfLen(S, k) : k \in 0..n}

Signals == SeqsUpTo(SampleValues, MaxLen)

NoCall == [kind |-> "none"]

(***************************************************************************)
(* The spectral transform: a call of fft or of calculateFFT on a drawn     *)
(* signal.                                                                 *)
(***************************************************************************)
FtIdle == /\ ft_data = <<>>
          /\ ft_samplingRate = 1
          /\ ft_op = "none"
          /\ ft_result = NoCall

FtInit == /\ ft_data \in Signals
          /\ ft_samplingRate \in SampleRates
          /\ ft_op = "none"
          /\ ft_result = NoCall

CallFft == /\ ft_op = "none"
           /\ ft_op' = "fft"
           /\ ft_result' = fft(ft_data)
           /\ UNCHANGED <<ft_data, ft_samplingRate>>
           /\ UNCHANGED ftOthers

CallCalculateFFT == /\ ft_op = "none"
                    /\ ft_op' = "calculateFFT"
                    /\ ft_result' = calculateFFT(ft_data, ft_samplingRate)
                    /\ UNCHANGED <<ft_data, ft_samplingRate>>
                    /\ UNCHANGED ftOthers

FtNext == CallFft \/ CallCalculateFFT

(***************************************************************************)
(* Welch's estimator: one call of calculateWelchPsd, segment by segment.   *)
(***************************************************************************)
WlIdle == /\ wl_data = <<>>
          /\ wl_samplingRate = 1
          /\ wl_npersegArg = 0
          /\ wl_pc = "idle"
          /\ wl_nperseg = 0
          /\ wl_i = 0
          /\ wl_psd = <<>>
          /\ wl_numSegments = 0
          /\ wl_result = NoCall

WlInit == /\ wl_data \in Signals
          /\ wl_samplingRate \in SampleRates
          /\ wl_npersegArg \in 0..MaxNperseg
          /\ wl_pc = "start"
          /\ wl_nperseg = 0
          /\ wl_i = 0
          /\ wl_psd = <<>>
          /\ wl_numSegments = 0
          /\ wl_result = NoCall

\* lines 257-268, up to the segment loop
WelchEnter ==
    /\ wl_pc = "start"
    /\ LET nperseg == welchNperseg(Len(wl_data), wl_npersegArg)
           nfft    == welchNfft(nperseg)
       IN  IF welchReturnsEmpty(Len(wl_data), wl_npersegArg)
           THEN /\ wl_pc' = "done"
                /\ wl_result' = [kind |-> "return", freqs |-> <<>>, psd |-> <<>>]
                /\ UNCHANGED <<wl_nperseg, wl_psd>>
           ELSE IF ~ArrayLengthOk(nfft + 2, 2)
           THEN /\ wl_pc' = "done"
                /\ wl_result' = Raise("RangeError: Invalid array length")
                /\ wl_nperseg' = nperseg
                /\ UNCHANGED wl_psd
           ELSE /\ wl_pc' = "segments"
                /\ wl_nperseg' = nperseg
                /\ wl_psd' = [j \in 1..(nfft \div 2 + 1) |-> 0]
                /\ UNCHANGED wl_result
    /\ UNCHANGED <<wl_data, wl_samplingRate, wl_npersegArg, wl_i, wl_numSegments>>
    /\ UNCHANGED wlOthers

\* one iteration of for (let i = 0; i + nperseg <= data.length; i += hopSize)
WelchSegment ==
    /\ wl_pc = "segments"
    /\ wl_i + wl_nperseg <= Len(wl_data)
    /\ wl_numSegments < MaxIter
    /\ wl_psd' = welchAccumulate(wl_data, wl_i, wl_nperseg,
                                 welchNfft(wl_nperseg), wl_psd)
    /\ wl_numSegments' = wl_numSegments + 1
    /\ wl_i' = wl_i + welchHopSize(wl_nperseg)
    /\ UNCHANGED <<wl_data, wl_samplingRate, wl_npersegArg, wl_pc,
                   wl_nperseg, wl_result>>
    /\ UNCHANGED wlOthers

\* the loop's exit and lines 285-296
WelchReturn ==
    /\ wl_pc = "segments"
    /\ ~(wl_i + wl_nperseg <= Len(wl_data))
    /\ wl_pc' = "done"
    /\ wl_result' = [kind  |-> "return",
                     freqs |-> welchFreqs(wl_samplingRate, welchNfft(wl_nperseg)),
                     psd   |-> welchScaled(wl_psd, wl_samplingRate, wl_nperseg,
                                           wl_numSegments)]
    /\ UNCHANGED <<wl_data, wl_samplingRate, wl_npersegArg, wl_nperseg,
                   wl_i, wl_psd, wl_numSegments>>
    /\ UNCHANGED wlOthers

WlNext == WelchEnter \/ WelchSegment \/ WelchReturn

(***************************************************************************)
(* The noise estimator: one call of estimateNoise, frame by frame.         *)
(***************************************************************************)
\* the percentile thresholds estimateNoise is called with
Percentiles == {0, 30, 50, 99, 100}

EnIdle == /\ en_data = <<>>
          /\ en_samplingRate = 1
          /\ en_frameTicks = 0
          /\ en_percentile = 0
          /\ en_pc = "idle"
          /\ en_i = 0
          /\ en_frameEnergies = <<>>
          /\ en_frameTimes = <<>>
          /\ en_result = NoCall

EnInit == /\ en_data \in Signals
          /\ en_samplingRate \in SampleRates
          /\ en_frameTicks \in 0..MaxFrameTicks
          /\ en_percentile \in Percentiles
          /\ en_pc = "frames"
          /\ en_i = 0
          /\ en_frameEnergies = <<>>
          /\ en_frameTimes = <<>>
          /\ en_result = NoCall

\* one iteration of
\* for (let i = 0; i + frameLength <= channelData.length; i += hopLength)
EstimateNoiseFrame ==
    LET frameLength == noiseFrameLength(en_frameTicks, en_samplingRate) IN
    /\ en_pc = "frames"
    /\ en_i + frameLength <= Len(en_data)
    /\ Len(en_frameEnergies) < MaxIter
    /\ en_frameEnergies' =
           Append(en_frameEnergies,
                  noiseFrameEnergy(Slice(en_data, en_i, en_i + frameLength),
                                   frameLength))
    /\ en_frameTimes' =
           Append(en_frameTimes,
                  noiseFrameTime(en_i, frameLength, en_samplingRate))
    /\ en_i' = en_i + noiseHopLength(frameLength)
    /\ UNCHANGED <<en_data, en_samplingRate, en_frameTicks, en_percentile,
                   en_pc, en_result>>
    /\ UNCHANGED enOthers

\* the loop's exit and lines 317-365
EstimateNoiseReturn ==
    LET frameLength == noiseFrameLength(en_frameTicks, en_samplingRate) IN
    /\ en_pc = "frames"
    /\ ~(en_i + frameLength <= Len(en_data))
    /\ en_pc' = "done"
    /\ en_result' = noiseProfile(en_data, en_samplingRate, frameLength,
                                 en_percentile, en_frameEnergies, en_frameTimes)
    /\ UNCHANGED <<en_data, en_samplingRate, en_frameTicks, en_percentile,
                   en_i, en_frameEnergies, en_frameTimes>>
    /\ UNCHANGED enOthers

EnNext == EstimateNoiseFrame \/ EstimateNoiseReturn

(***************************************************************************)
(* The tonal detector: one call of detectTonals, frame by frame.           *)
(***************************************************************************)
\* the sampling rates, frequency ranges and thresholds detectTonals is
\* called with
TonalSampleRates == {1, 400}
TonalFreqRanges == {<<100, 6000>>, <<150, 6000>>}
TonalMinSnrDbs == {3, 15}
TonalMinFrames == {1, 2}

DtIdle == /\ dt_data = <<>>
          /\ dt_samplingRate = 1
          /\ dt_frameProduct = 0
          /\ dt_freqRange = <<0, 0>>
          /\ dt_minSnrDb = 0
          /\ dt_minFramesPresent = 0
          /\ dt_pc = "idle"
          /\ dt_i = 0
          /\ dt_allFramesTonals = <<>>
          /\ dt_result = NoCall

DtInit == /\ dt_data \in Signals
          /\ dt_samplingRate \in TonalSampleRates
          /\ dt_frameProduct \in 0..MaxFrameProduct
          /\ dt_freqRange \in TonalFreqRanges
          /\ dt_minSnrDb \in TonalMinSnrDbs
          /\ dt_minFramesPresent \in TonalMinFrames
          /\ dt_pc = "start"
          /\ dt_i = 0
          /\ dt_allFramesTonals = <<>>
          /\ dt_result = NoCall

\* lines 381-387: if (channelData.length < frameSize) return []
DetectTonalsEnter ==
    /\ dt_pc = "start"
    /\ IF Len(dt_data) < frameSizeOf(dt_frameProduct)
       THEN /\ dt_pc' = "done"
            /\ dt_result' = [kind |-> "return", tonals |-> <<>>]
       ELSE /\ dt_pc' = "frames"
            /\ UNCHANGED dt_result
    /\ UNCHANGED <<dt_data, dt_samplingRate, dt_frameProduct, dt_freqRange,
                   dt_minSnrDb, dt_minFramesPresent, dt_i, dt_allFramesTonals>>
    /\ UNCHANGED dtOthers

\* one iteration of
\* for (let i = 0; i + frameSize <= channelData.length; i += hopSize):
\* the call of calculateWelchPsd in it may raise, which ends detectTonals,
\* or never come back, which leaves detectTonals inside it ("stuck")
DetectTonalsFrame ==
    LET frameSize == frameSizeOf(dt_frameProduct)
        frame     == tonalFrame(Slice(dt_data, dt_i, dt_i + frameSize),
                                dt_samplingRate, frameSize, dt_freqRange,
                                dt_minSnrDb)
    IN  /\ dt_pc = "frames"
        /\ dt_i + frameSize <= Len(dt_data)
        /\ Len(dt_allFramesTonals) < MaxIter
        /\ IF frame.kind = "raise"
           THEN /\ dt_pc' = "done"
                /\ dt_result' = frame
                /\ UNCHANGED <<dt_i, dt_allFramesTonals>>
           ELSE IF frame.kind = "diverge"
           THEN /\ dt_pc' = "stuck"
                /\ UNCHANGED <<dt_i, dt_allFramesTonals, dt_result>>
           ELSE /\ dt_allFramesTonals' = Append(dt_allFramesTonals, frame.tonals)
                /\ dt_i' = dt_i + frameHopSize(frameSize)
                /\ UNCHANGED <<dt_pc, dt_result>>
        /\ UNCHANGED <<dt_data, dt_samplingRate, dt_frameProduct, dt_freqRange,
                       dt_minSnrDb, dt_minFramesPresent>>
        /\ UNCHANGED dtOthers

\* the loop's exit and lines 434-466
DetectTonalsReturn ==
    /\ dt_pc = "frames"
    /\ ~(dt_i + frameSizeOf(dt_frameProduct) <= Len(dt_data))
    /\ dt_pc' = "done"
    /\ dt_result' = detectTonalsResult(dt_allFramesTonals, dt_minFramesPresent)
    /\ UNCHANGED <<dt_data, dt_samplingRate, dt_frameProduct, dt_freqRange,
                   dt_minSnrDb, dt_minFramesPresent, dt_i, dt_allFramesTonals>>
    /\ UNCHANGED dtOthers

(***************************************************************************)
(* The DoA estimator: one call of calculateDoaVsTime, frame by frame.      *)
(***************************************************************************)
\* the velocity channels are drawn as a quarter-rate sine, its negative, a
\* quarter-rate cosine or silence, cut to a length; the hydrophone channel
\* as the sine or silence
DoaPatterns == {<<0, FP, 0, -FP>>, <<0, -FP, 0, FP>>, <<FP, 0, -FP, 0>>, <<0, 0, 0, 0>>}
DoaHydrophonePatterns == {<<0, FP, 0, -FP>>, <<0, 0, 0, 0>>}
DoaChannelsOf(patterns) == {[k \in 1..n |-> pat[((k - 1) % 4) + 1]] :
                               n \in 0..MaxDoaLen, pat \in patterns}
DoaChannels == DoaChannelsOf(DoaPatterns)
DoaHydrophones == DoaChannelsOf(DoaHydrophonePatterns)
DoaSampleRates == {4}
\* the selected tonal's frequency, in Hz
DoaTonalFreqs == {1, 5}

DaIdle == /\ da_hData = <<>>
          /\ da_vxData = <<>>
          /\ da_vyData = <<>>
          /\ da_samplingRate = 1
          /\ da_tonalFreq = 0
          /\ da_frameProduct = 0
          /\ da_pc = "idle"
          /\ da_i = 0
          /\ da_doaPoints = <<>>
          /\ da_result = NoCall

DaInit == /\ da_hData \in DoaHydrophones
          /\ da_vxData \in DoaChannels
          /\ da_vyData \in DoaChannels
          /\ da_samplingRate \in DoaSampleRates
          /\ da_tonalFreq \in DoaTonalFreqs
          /\ da_frameProduct \in 0..MaxFrameProduct
          /\ da_pc = "start"
          /\ da_i = 0
          /\ da_doaPoints = <<>>
          /\ da_result = NoCall

\* lines 480-490: if (hData.length < frameSize) return []
DoaEnter ==
    /\ da_pc = "start"
    /\ IF Len(da_hData) < frameSizeOf(da_frameProduct)
       THEN /\ da_pc' = "done"
            /\ da_result' = [kind |-> "return", points |-> <<>>]
       ELSE /\ da_pc' = "frames"
            /\ UNCHANGED da_result
    /\ UNCHANGED <<da_hData, da_vxData, da_vyData, da_samplingRate, da_tonalFreq,
                   da_frameProduct, da_i, da_doaPoints>>
    /\ UNCHANGED daOthers

\* one iteration of
\* for (let i = 0; i + frameSize <= hData.length; i += hopSize)
DoaFrame ==
    LET frameSize == frameSizeOf(da_frameProduct) IN
    /\ da_pc = "frames"
    /\ da_i + frameSize <= Len(da_hData)
    /\ Len(da_doaPoints) < MaxIter
    /\ da_doaPoints' = da_doaPoints
                          \o doaFrame(da_hData, da_vxData, da_vyData, da_samplingRate,
                                      da_tonalFreq, frameSize, da_i)
    /\ da_i' = da_i + frameHopSize(frameSize)
    /\ UNCHANGED <<da_hData, da_vxData, da_vyData, da_samplingRate, da_tonalFreq,
                   da_frameProduct, da_pc, da_result>>
    /\ UNCHANGED daOthers

\* the loop's exit and return doaPoints
DoaReturn ==
    /\ da_pc = "frames"
    /\ ~(da_i + frameSizeOf(da_frameProduct) <= Len(da_hData))
    /\ da_pc' = "done"
    /\ da_result' = [kind |-> "return", points |-> da_doaPoints]
    /\ UNCHANGED <<da_hData, da_vxData, da_vyData, da_samplingRate, da_tonalFreq,
                   da_frameProduct, da_i, da_doaPoints>>
    /\ UNCHANGED daOthers

FrNext == \/ DetectTonalsEnter \/ DetectTonalsFrame \/ DetectTonalsReturn
          \/ DoaEnter \/ DoaFrame \/ DoaReturn

(***************************************************************************)
(* The filter stage: one call of applyFilter.                              *)
(***************************************************************************)
FilterTypes == {"none", "lowpass", "highpass", "bandpass"}
FilterSampleRates == {4, 8}
\* a cutoff in Hz, or a pair of them
FilterCutoffs(samplingRate) ==
    {<<c>> : c \in 1..(samplingRate - 1)}
        \cup {<<lo, hi>> : lo \in 0..(samplingRate - 1), hi \in 0..(samplingRate - 1)}

FlIdle == /\ fl_data = <<>>
          /\ fl_filterType = "none"
          /\ fl_cutoff = <<1>>
          /\ fl_samplingRate = 1
          /\ fl_result = NoCall

FlInit == /\ fl_data \in Signals
          /\ fl_filterType \in FilterTypes
          /\ fl_samplingRate \in FilterSampleRates
          /\ fl_cutoff \in FilterCutoffs(fl_samplingRate)
          /\ fl_result = NoCall

CallApplyFilter ==
    /\ fl_result = NoCall
    /\ fl_result' = [kind   |-> "return",
                     output |-> applyFilter(fl_data, fl_filterType, fl_cutoff,
                                            fl_samplingRate)]
    /\ UNCHANGED <<fl_data, fl_filterType, fl_cutoff, fl_samplingRate>>
    /\ UNCHANGED flOthers

FlNext == CallApplyFilter

(***************************************************************************)
(* The cross-frame tracking of detectTonals (lines 434-466), tonal by      *)
(* tonal.  The frames' detections are drawn directly: with a frame of a    *)
(* thousand samples or more the PSD resolves peaks a few Hz apart, so any  *)
(* of these frequencies can be detected in one frame.                      *)
(***************************************************************************)
TrackFrequencies == {100 * FP, 140 * FP, 165 * FP}
\* power and snr of a detection, in dB
TrackLevels == {<<-30 * FP, 10 * FP>>, <<-20 * FP, 21 * FP>>}
TrackTonals == {[frequency |-> f, power |-> l[1], snr |-> l[2]] :
                    f \in TrackFrequencies, l \in TrackLevels}
\* detections per frame
TrackFrameSizes == {1, 2}
\* the detections cut into frames of per detections, the last one shorter
RECURSIVE Chunks(_, _)
Chunks(flat, per) ==
    IF flat = <<>> THEN <<>>
    ELSE <<SubSeq(flat, 1, Min(per, Len(flat)))>>
             \o Chunks(SubSeq(flat, Min(per, Len(flat)) + 1, Len(flat)), per)

TkIdle == /\ tk_allFramesTonals = <<>>
          /\ tk_minFramesPresent = 0
          /\ tk_pc = "idle"
          /\ tk_frame = 0
          /\ tk_tonal = 0
          /\ tk_persistentTonals = <<>>
          /\ tk_opened = <<>>
          /\ tk_result = NoCall

TkInit == /\ \E flat \in SeqsUpTo(TrackTonals, MaxTonals), per \in TrackFrameSizes :
                 tk_allFramesTonals = Chunks(flat, per)
          /\ tk_minFramesPresent \in TonalMinFrames
          /\ tk_pc = "track"
          /\ tk_frame = 0
          /\ tk_tonal = 0
          /\ tk_persistentTonals = <<>>
          /\ tk_opened = <<>>
          /\ tk_result = NoCall

\* the tonal the loops of lines 438-439 stand at
trackCurrent == tk_allFramesTonals[tk_frame + 1][tk_tonal + 1]

\* lines 440-450: one pass of for (const tonal of frame)
TrackTonal ==
    /\ tk_pc = "track"
    /\ tk_frame < Len(tk_allFramesTonals)
    /\ tk_tonal < Len(tk_allFramesTonals[tk_frame + 1])
    /\ tk_persistentTonals' = trackTonal(tk_persistentTonals, trackCurrent)
    /\ tk_opened' = IF Len(tk_persistentTonals') > Len(tk_persistentTonals)
                    THEN Append(tk_opened, RoundDiv(trackCurrent.frequency, FP))
                    ELSE tk_opened
    /\ tk_tonal' = tk_tonal + 1
    /\ UNCHANGED <<tk_allFramesTonals, tk_minFramesPresent, tk_pc, tk_frame, tk_result>>
    /\ UNCHANGED tkOthers

\* line 438: for (const frame of allFramesTonals), the frame's tonals done
TrackNextFrame ==
    /\ tk_pc = "track"
    /\ tk_frame < Len(tk_allFramesTonals)
    /\ tk_tonal >= Len(tk_allFramesTonals[tk_frame + 1])
    /\ tk_frame' = tk_frame + 1
    /\ tk_tonal' = 0
    /\ UNCHANGED <<tk_allFramesTonals, tk_minFramesPresent, tk_pc,
                   tk_persistentTonals, tk_opened, tk_result>>
    /\ UNCHANGED tkOthers

\* lines 454-466
TrackReturn ==
    /\ tk_pc = "track"
    /\ tk_frame >= Len(tk_allFramesTonals)
    /\ tk_pc' = "done"
    /\ tk_result' = [kind   |-> "return",
                     tonals |-> persistentOf(tk_persistentTonals, tk_minFramesPresent)]
    /\ UNCHANGED <<tk_allFramesTonals, tk_minFramesPresent, tk_frame, tk_tonal,
                   tk_persistentTonals, tk_opened>>
    /\ UNCHANGED tkOthers

TkNext == TrackTonal \/ TrackNextFrame \/ TrackReturn

(***************************************************************************)
(* The orientation lookup: one call of getInterpolatedOrientation.  The    *)
(* samples come sorted by time from the parser; samples may share a time.  *)
(***************************************************************************)
OrientSampleTimes == {0, FP, 2 * FP}
OrientQueryTimes == {-(FP \div 2), 0, (3 * FP) \div 10, FP, (3 * FP) \div 2, 2 * FP,
                     (5 * FP) \div 2}
\* roll, pitch, yaw in degrees
OrientAttitudes == {<<0, 0, 0>>, <<10 * FP, -20 * FP, 90 * FP>>,
                    <<-30 * FP, 5 * FP, 180 * FP>>}
OrientSamples == {[time |-> t, roll |-> a[1], pitch |-> a[2], yaw |-> a[3]] :
                      t \in OrientSampleTimes, a \in OrientAttitudes}
OrientLists == {data \in SeqsUpTo(OrientSamples, MaxSamples) :
                    \A k \in 1..(Len(data) - 1) : data[k].time <= data[k + 1].time}

OrIdle == /\ or_time = 0
          /\ or_data = <<>>
          /\ or_pc = "idle"
          /\ or_low = 0
          /\ or_high = 0
          /\ or_index = -1
          /\ or_result = NoCall

OrInit == /\ or_time \in OrientQueryTimes
          /\ or_data \in OrientLists
          /\ or_pc = "start"
          /\ or_low = 0
          /\ or_high = 0
          /\ or_index = -1
          /\ or_result = NoCall

\* lines 545-549: the early returns, or the search set up
OrientEnter ==
    /\ or_pc = "start"
    /\ IF or_data = <<>>
       THEN /\ or_pc' = "done"
            /\ or_result' = [roll |-> 0, pitch |-> 0, yaw |-> 0]
            /\ UNCHANGED <<or_low, or_high, or_index>>
       ELSE IF orientBeforeFirst(or_time, or_data)
       THEN /\ or_pc' = "done"
            /\ or_result' = orientAnglesOf(or_data[1])
            /\ UNCHANGED <<or_low, or_high, or_index>>
       ELSE IF orientAfterLast(or_time, or_data)
       THEN /\ or_pc' = "done"
            /\ or_result' = orientAnglesOf(or_data[Len(or_data)])
            /\ UNCHANGED <<or_low, or_high, or_index>>
       ELSE /\ or_pc' = "search"
            /\ or_low' = 0
            /\ or_high' = Len(or_data) - 1
            /\ or_index' = -1
            /\ UNCHANGED or_result
    /\ UNCHANGED <<or_time, or_data>>
    /\ UNCHANGED orOthers

\* lines 550-558: one pass of while (low <= high)
OrientSearchStep ==
    /\ or_pc = "search"
    /\ or_low <= or_high
    /\ LET mid == (or_low + or_high) \div 2 IN
       IF orientSearchRight(or_data[mid + 1].time, or_time)
       THEN /\ or_index' = mid
            /\ or_low' = mid + 1
            /\ UNCHANGED or_high
       ELSE /\ or_high' = mid - 1
            /\ UNCHANGED <<or_index, or_low>>
    /\ UNCHANGED <<or_time, or_data, or_pc, or_result>>
    /\ UNCHANGED orOthers

\* lines 560-571
OrientReturn ==
    /\ or_pc = "search"
    /\ or_low > or_high
    /\ or_pc' = "done"
    /\ or_result' = orientInterpolate(or_time, or_data, or_index)
    /\ UNCHANGED <<or_time, or_data, or_low, or_high, or_index>>
    /\ UNCHANGED orOthers

OrNext == OrientEnter \/ OrientSearchStep \/ OrientReturn

(***************************************************************************)
(* The application: App's handlers, one ChannelAnalysis it renders, and    *)
(* that view's DoaAnalysisTab.  A handler that changes App's state is      *)
(* followed by App's render, which defines ChannelAnalysisWrapper anew     *)
(* (React.memo in the body of App): the views of the previous render are   *)
(* unmounted, their effects cleaned up, and fresh ones mounted.  A handler *)
(* and the render and effects that follow it are one step; the 50 ms timer *)
(* of DoaAnalysisTab fires in a step of its own.                           *)
(***************************************************************************)
AppRoles == {"hydrophone", "vx", "vy"}
\* the values of a role's select: 'none' or a channel's index
AppRoleValues == {"none", "0", "1", "2", "3"}
\* the channel counts of the files uploaded
AppChannelCounts == {3, 4, 5}
\* the signal's sampling rate, in Hz
AppSamplingRate == 4
\* frameDuration * samplingRate, frameDuration as set in the DoA tab
AppFrameProduct == 4
\* the samples a channel holds
AppSignalLen == 6
\* processedData: channel k's samples
AppChannelPatterns == << <<0, FP, 0, -FP>>, <<0, FP, 0, -FP>>,
                         <<0, -FP, 0, FP>>, <<FP, 0, -FP, 0>> >>
AppChannelsData == [c \in 1..4 |->
                       [k \in 1..AppSignalLen |-> AppChannelPatterns[c][((k - 1) % 4) + 1]]]
\* the values analysisStartTime and orientationStartTimeOffset are set to
AppStartTimes == {-(FP \div 2), 0, (3 * FP) \div 10, FP \div 2, (3 * FP) \div 2}
AppOffsets == {0, FP}
\* what parseXlsx yields for an orientation file
AppOrientLists ==
    {<<[time |-> 0, roll |-> 0, pitch |-> 0, yaw |-> 0],
       [time |-> 2 * FP, roll |-> 0, pitch |-> 0, yaw |-> 90 * FP]>>}
\* what TonalDetectionTab reports: the tonals' frequency_mean, in Hz
AppTonalLists == {<<>>, <<1, 2>>}
\* useState(5.0): frameDuration, in s
DefaultFrameDuration == 5
\* the values typed into the frame duration input (an emptied input gives
\* Number('') = 0); AppFrameProduct is that of 1 s
AppFrameDurations == {0, 1, DefaultFrameDuration}

\* the values typed into a cutoff input, in Hz
AppCutoffEdits == {0, 8000}
\* the timers of handleApplyFilters, and the calls of handleOrientationUpload,
\* that are pending at a time
MaxPending == 1

NoRoles == [r \in AppRoles |-> Null]
NoOrientation == [loaded |-> FALSE, data |-> <<>>]
\* no timer is pending in the DoA tab
NoTimerArgs == [selectedTonalFreq |-> Null, channelRoles |-> NoRoles,
                frameDuration |-> DefaultFrameDuration, analysisStartTime |-> 0,
                orientationData |-> NoOrientation, orientationStartTimeOffset |-> 0]
\* signalData and processedData: null, or the channels by their lengths
NoChannels == [loaded |-> FALSE, channels |-> <<>>]
\* { type: FilterType.NONE, cutoff: 1000 }; a cutoff that is a number is a
\* sequence of one, a [low, high] pair a sequence of two
DefaultFilterSettings == [type |-> "none", cutoff |-> <<1000>>]

\* App's useState initial values, nothing rendered below it
ApIdle == /\ ap_signalData = NoChannels
          /\ ap_selectedChannels = <<>>
          /\ ap_filterSettings = DefaultFilterSettings
          /\ ap_isLoading = FALSE
          /\ ap_processedData = NoChannels
          /\ ap_filterJobs = <<>>
          /\ ap_parsing = 0
          /\ ap_error = FALSE
          /\ ap_channelRoles = NoRoles
          /\ ap_orientationData = NoOrientation
          /\ ap_analysisStartTime = 0
          /\ ap_orientationStartTimeOffset = 0
          /\ ap_activeTab = "waveform"
          /\ ap_persistentTonals = <<>>
          /\ ap_doaMounted = FALSE
          /\ ap_selectedTonalFreq = Null
          /\ ap_timer = FALSE
          /\ ap_doaData = <<>>
          /\ ap_frameDuration = DefaultFrameDuration
          /\ ap_isCalculating = FALSE
          /\ ap_timerArgs = NoTimerArgs
          /\ ap_hung = FALSE

\* value === 'none' ? null : parseInt(value, 10)
parseRoleValue(value) ==
    CASE value = "none" -> Null
      [] value = "0" -> 0
      [] value = "1" -> 1
      [] value = "2" -> 2
      [] value = "3" -> 3

\* the role is set and the other roles are left as they are
newRolesKeepOthers(channelRoles, role, value) ==
    [channelRoles EXCEPT ![role] = parseRoleValue(value)]

\* handleRoleChange: the roles handed to onChannelRolesChange
newRoles(channelRoles, role, value) ==
    LET channelIndex == parseRoleValue(value) IN
    [key \in AppRoles |->
        IF key = role THEN channelIndex
        ELSE IF channelIndex # Null /\ channelRoles[key] = channelIndex THEN Null
        ELSE channelRoles[key]]

\* only the hydrophone's role is looked at
hydrophoneAssigned(channelRoles) == channelRoles.hydrophone # Null

\* const allRolesAssigned = ...
allRolesAssigned(channelRoles) ==
    /\ channelRoles.hydrophone # Null
    /\ channelRoles.vx # Null
    /\ channelRoles.vy # Null

\* TABS.filter(t => t.visible); the tabs fft, spectrogram and noise are
\* always visible and mount no state of interest, as waveform
visibleTabs(channelRoles) ==
    {"waveform", "tonals"} \cup (IF allRolesAssigned(channelRoles) THEN {"doa"} ELSE {})

\* the effect that switches a hidden tab back to waveform
fallbackTab(activeTab, channelRoles) ==
    IF activeTab \notin visibleTabs(channelRoles) THEN "waveform" ELSE activeTab

\* Math.floor(analysisStartTime * samplingRate)
sliceStartIndex(analysisStartTime, samplingRate) ==
    (analysisStartTime * samplingRate) \div FP

\* slicedAllChannelsData
slicedAllChannelsData(allChannelsData, analysisStartTime, samplingRate) ==
    LET startIndex == sliceStartIndex(analysisStartTime, samplingRate) IN
    IF startIndex <= 0 \/ startIndex >= Len(allChannelsData[1]) THEN allChannelsData
    ELSE [c \in 1..Len(allChannelsData) |->
             SubSeq(allChannelsData[c], startIndex + 1, Len(allChannelsData[c]))]

\* the selection is left as it is
autoSelectNothing(persistentTonals, selectedTonalFreq) == selectedTonalFreq

\* DoaAnalysisTab's first effect: the first tonal is selected when none is
autoSelectTonal(persistentTonals, selectedTonalFreq) ==
    IF Len(persistentTonals) > 0 /\ selectedTonalFreq = Null THEN persistentTonals[1]
    ELSE IF Len(persistentTonals) = 0 THEN Null
    ELSE selectedTonalFreq

\* DoaAnalysisTab's second effect: it clears doaData and returns
doaEffectSkips(selectedTonalFreq, channelRoles) ==
    \/ selectedTonalFreq = Null
    \/ channelRoles.hydrophone = Null
    \/ channelRoles.vx = Null
    \/ channelRoles.vy = Null

\* the orientation is looked up at the point's own time
doaOrientationTimeNoOffset(time, orientationStartTimeOffset) == time
\* const orientationTime = time + orientationStartTimeOffset
doaOrientationTime(time, orientationStartTimeOffset) == time + orientationStartTimeOffset

\* rawResult.map(p => ...): one point
doaCorrectedPoint(p, analysisStartTime, orientationData, orientationStartTimeOffset) ==
    LET time == p.time + analysisStartTime
        attitude == getInterpolatedOrientation(
                        doaOrientationTime(time, orientationStartTimeOffset),
                        orientationData.data)
        correctedDoa == IF orientationData.loaded
                        THEN correctDoa(p.doa, attitude.roll, attitude.pitch, attitude.yaw)
                        ELSE p.doa
    IN  [time |-> time, doa |-> correctedDoa, doa_raw |-> p.doa,
         confidence |-> p.confidence]

\* App renders: the ChannelAnalysis of the previous render is unmounted (the
\* timer cleared by the effect's cleanup), and, with a signal loaded, a fresh
\* one is mounted on its waveform tab
Remount ==
    /\ ~ap_hung
    /\ ap_activeTab' = "waveform"
    /\ ap_persistentTonals' = <<>>
    /\ ap_doaMounted' = FALSE
    /\ ap_selectedTonalFreq' = Null
    /\ ap_timer' = FALSE
    /\ ap_doaData' = <<>>
    /\ ap_frameDuration' = DefaultFrameDuration
    /\ ap_isCalculating' = FALSE
    /\ ap_timerArgs' = NoTimerArgs
    /\ UNCHANGED ap_hung

\* the file parsed: its channels, all of AppSignalLen samples
uploadedChannels(numChannels) == [c \in 1..numChannels |-> AppSignalLen]

\* every channel index is selected
allChannels(numChannels) == [i \in 1..numChannels |-> i - 1]

\* Array.from({ length: Math.min(4, data.channels.length) }, (_, i) => i)
initialChannels(numChannels) == [i \in 1..Min(4, numChannels) |-> i - 1]

\* handleFileUpload, from the FileUpload shown while no signal is loaded
HandleFileUpload ==
    /\ ~ap_signalData.loaded
    /\ \E numChannels \in AppChannelCounts :
          IF numChannels <= 3
          THEN /\ ap_error' = TRUE
               /\ ap_signalData' = NoChannels
               /\ ap_isLoading' = FALSE
               /\ UNCHANGED <<ap_channelRoles, ap_orientationData,
                              ap_analysisStartTime, ap_orientationStartTimeOffset,
                              ap_selectedChannels, ap_filterSettings, ap_processedData>>
          ELSE /\ ap_error' = FALSE
               /\ ap_signalData' = [loaded |-> TRUE, channels |-> uploadedChannels(numChannels)]
               /\ ap_selectedChannels' = initialChannels(numChannels)
               /\ ap_processedData' = ap_signalData'
               /\ ap_filterSettings' = DefaultFilterSettings
               /\ ap_channelRoles' = NoRoles
               /\ ap_orientationData' = NoOrientation
               /\ ap_analysisStartTime' = 0
               /\ ap_orientationStartTimeOffset' = 0
               /\ ap_isLoading' = FALSE
    /\ UNCHANGED <<ap_filterJobs, ap_parsing>>
    /\ Remount
    /\ UNCHANGED apOthers

\* handleReset, from the button shown while a signal is loaded
HandleReset ==
    /\ ap_signalData.loaded
    /\ ap_signalData' = NoChannels
    /\ ap_selectedChannels' = <<>>
    /\ ap_filterSettings' = DefaultFilterSettings
    /\ ap_processedData' = NoChannels
    /\ ap_error' = FALSE
    /\ ap_orientationData' = NoOrientation
    /\ ap_analysisStartTime' = 0
    /\ ap_orientationStartTimeOffset' = 0
    /\ UNCHANGED <<ap_channelRoles, ap_isLoading, ap_filterJobs, ap_parsing>>
    /\ Remount
    /\ UNCHANGED apOthers

\* ControlPanel's handleRoleChange and App's setChannelRoles
HandleRoleChange ==
    /\ ap_signalData.loaded
    /\ \E role \in AppRoles, value \in AppRoleValues :
          ap_channelRoles' = newRoles(ap_channelRoles, role, value)
    /\ UNCHANGED <<loadVars, ap_signalData, ap_error, ap_orientationData,
                   ap_analysisStartTime, ap_orientationStartTimeOffset>>
    /\ Remount
    /\ UNCHANGED apOthers

\* handleOrientationUpload up to its await
HandleOrientationUpload ==
    /\ ap_signalData.loaded
    /\ ap_parsing < MaxPending
    /\ ap_error' = FALSE
    /\ ap_isLoading' = TRUE
    /\ ap_parsing' = ap_parsing + 1
    /\ UNCHANGED <<ap_signalData, ap_channelRoles, ap_orientationData,
                   ap_analysisStartTime, ap_orientationStartTimeOffset,
                   ap_selectedChannels, ap_filterSettings, ap_processedData, ap_filterJobs>>
    /\ Remount
    /\ UNCHANGED apOthers

\* handleOrientationUpload from its await on, parseXlsx having read the file
OrientationParsed ==
    /\ ap_parsing > 0
    /\ ap_parsing' = ap_parsing - 1
    /\ \E data \in AppOrientLists :
          ap_orientationData' = [loaded |-> TRUE, data |-> data]
    /\ ap_isLoading' = FALSE
    /\ UNCHANGED <<ap_signalData, ap_error, ap_channelRoles,
                   ap_analysisStartTime, ap_orientationStartTimeOffset,
                   ap_selectedChannels, ap_filterSettings, ap_processedData, ap_filterJobs>>
    /\ Remount
    /\ UNCHANGED apOthers

\* handleOrientationUpload from its await on, parseXlsx having rejected
OrientationParseFails ==
    /\ ap_parsing > 0
    /\ ap_parsing' = ap_parsing - 1
    /\ ap_error' = TRUE
    /\ ap_orientationData' = NoOrientation
    /\ ap_isLoading' = FALSE
    /\ UNCHANGED <<ap_signalData, ap_channelRoles,
                   ap_analysisStartTime, ap_orientationStartTimeOffset,
                   ap_selectedChannels, ap_filterSettings, ap_processedData, ap_filterJobs>>
    /\ Remount
    /\ UNCHANGED apOthers

\* handleClearOrientation
HandleClearOrientation ==
    /\ ap_signalData.loaded
    /\ ap_orientationData.loaded
    /\ ap_orientationData' = NoOrientation
    /\ ap_orientationStartTimeOffset' = 0
    /\ UNCHANGED <<loadVars, ap_signalData, ap_error, ap_channelRoles, ap_analysisStartTime>>
    /\ Remount
    /\ UNCHANGED apOthers

\* onAnalysisStartTimeChange = setAnalysisStartTime, with a new value
SetAnalysisStartTime ==
    /\ ap_signalData.loaded
    /\ \E time \in AppStartTimes :
          /\ time # ap_analysisStartTime
          /\ ap_analysisStartTime' = time
    /\ UNCHANGED <<loadVars, ap_signalData, ap_error, ap_channelRoles, ap_orientationData,
                   ap_orientationStartTimeOffset>>
    /\ Remount
    /\ UNCHANGED apOthers

\* onOrientationStartTimeOffsetChange = setOrientationStartTimeOffset, with
\* a new value
SetOrientationStartTimeOffset ==
    /\ ap_signalData.loaded
    /\ \E offset \in AppOffsets :
          /\ offset # ap_orientationStartTimeOffset
          /\ ap_orientationStartTimeOffset' = offset
    /\ UNCHANGED <<loadVars, ap_signalData, ap_error, ap_channelRoles, ap_orientationData,
                   ap_analysisStartTime>>
    /\ Remount
    /\ UNCHANGED apOthers

\* what the callback of a timer set now closes over
doaTimerArgs(selectedTonalFreq, frameDuration) ==
    [selectedTonalFreq |-> selectedTonalFreq, channelRoles |-> ap_channelRoles,
     frameDuration |-> frameDuration, analysisStartTime |-> ap_analysisStartTime,
     orientationData |-> ap_orientationData,
     orientationStartTimeOffset |-> ap_orientationStartTimeOffset]

\* DoaAnalysisTab's effects after a render with the selection and the frame
\* duration given: the cleanup of the second effect has cleared the timer,
\* the first effect settles the selection, and the second clears doaData and
\* returns, or sets isCalculating and a timer
DoaEffects(selectedTonalFreq, frameDuration, isCalculating, doaData) ==
    /\ ap_selectedTonalFreq' = autoSelectTonal(ap_persistentTonals, selectedTonalFreq)
    /\ ap_frameDuration' = frameDuration
    /\ IF doaEffectSkips(ap_selectedTonalFreq', ap_channelRoles)
       THEN /\ ap_doaData' = <<>>
            /\ ap_timer' = FALSE
            /\ ap_timerArgs' = NoTimerArgs
            /\ ap_isCalculating' = isCalculating
       ELSE /\ ap_doaData' = doaData
            /\ ap_timer' = TRUE
            /\ ap_timerArgs' = doaTimerArgs(ap_selectedTonalFreq', frameDuration)
            /\ ap_isCalculating' = TRUE

\* a click on one of the visible tabs: setActiveTab, ChannelAnalysis renders
\* plotContent, and the effects of what it mounts run
SelectTab ==
    /\ ap_signalData.loaded
    /\ ~ap_hung
    /\ \E tab \in visibleTabs(ap_channelRoles) :
          /\ tab # ap_activeTab
          /\ ap_activeTab' = fallbackTab(tab, ap_channelRoles)
          /\ ap_doaMounted' = (tab = "doa" /\ allRolesAssigned(ap_channelRoles))
    /\ IF ap_doaMounted'
       THEN DoaEffects(Null, DefaultFrameDuration, FALSE, <<>>)
       ELSE /\ ap_selectedTonalFreq' = Null
            /\ ap_timer' = FALSE
            /\ ap_doaData' = <<>>
            /\ ap_frameDuration' = DefaultFrameDuration
            /\ ap_isCalculating' = FALSE
            /\ ap_timerArgs' = NoTimerArgs
    /\ UNCHANGED <<ap_persistentTonals, ap_hung>>
    /\ UNCHANGED appVars
    /\ UNCHANGED apOthers

\* TonalDetectionTab's timer: onTonalsDetected = setPersistentTonals
TonalsDetected ==
    /\ ap_signalData.loaded
    /\ ~ap_hung
    /\ ap_activeTab = "tonals"
    /\ \E tonals \in AppTonalLists :
          /\ tonals # ap_persistentTonals
          /\ ap_persistentTonals' = tonals
    /\ UNCHANGED <<ap_activeTab, ap_doaMounted, ap_selectedTonalFreq, ap_timer,
                   ap_doaData, ap_frameDuration, ap_isCalculating, ap_timerArgs, ap_hung>>
    /\ UNCHANGED appVars
    /\ UNCHANGED apOthers

\* the Target Tonal select: setSelectedTonalFreq(Number(e.target.value)), for
\* another of the options
SelectTonal ==
    /\ ap_doaMounted
    /\ ~ap_hung
    /\ \E k \in 1..Len(ap_persistentTonals) :
          /\ ap_persistentTonals[k] # ap_selectedTonalFreq
          /\ DoaEffects(ap_persistentTonals[k], ap_frameDuration, ap_isCalculating,
                        ap_doaData)
    /\ UNCHANGED <<ap_activeTab, ap_persistentTonals, ap_doaMounted, ap_hung>>
    /\ UNCHANGED appVars
    /\ UNCHANGED apOthers

\* the Frame Duration input: setFrameDuration(Number(e.target.value)), for
\* another value
SetFrameDuration ==
    /\ ap_doaMounted
    /\ ~ap_hung
    /\ \E frameDuration \in AppFrameDurations :
          /\ frameDuration # ap_frameDuration
          /\ DoaEffects(ap_selectedTonalFreq, frameDuration, ap_isCalculating, ap_doaData)
    /\ UNCHANGED <<ap_activeTab, ap_persistentTonals, ap_doaMounted, ap_hung>>
    /\ UNCHANGED appVars
    /\ UNCHANGED apOthers

\* DoaAnalysisTab's timer fires: calculateDoaVsTime on the roles' channels of
\* the sliced data the callback has closed over, the points mapped,
\* setDoaData, and setIsCalculating(false) in the finally; a call of
\* calculateDoaVsTime that never returns leaves the page in the callback
DoaTimerFires ==
    /\ ap_timer
    /\ ~ap_hung
    /\ ap_timer' = FALSE
    /\ ap_timerArgs' = NoTimerArgs
    /\ \E args \in {ap_timerArgs} :
       \E allChannelsData \in {slicedAllChannelsData(AppChannelsData, args.analysisStartTime,
                                                     AppSamplingRate)} :
       \E hData \in {allChannelsData[args.channelRoles.hydrophone + 1]} :
       \E vxData \in {allChannelsData[args.channelRoles.vx + 1]} :
       \E vyData \in {allChannelsData[args.channelRoles.vy + 1]} :
       \E call \in {calculateDoaVsTime(hData, vxData, vyData, AppSamplingRate,
                                       args.selectedTonalFreq,
                                       args.frameDuration * AppSamplingRate)} :
          IF call = Diverge
          THEN /\ ap_hung' = TRUE
               /\ UNCHANGED <<ap_doaData, ap_isCalculating>>
          ELSE /\ ap_doaData' = [k \in 1..Len(call.points) |->
                                    doaCorrectedPoint(call.points[k], args.analysisStartTime,
                                                      args.orientationData,
                                                      args.orientationStartTimeOffset)]
               /\ ap_isCalculating' = FALSE
               /\ UNCHANGED ap_hung
    /\ UNCHANGED <<ap_activeTab, ap_persistentTonals, ap_doaMounted,
                   ap_selectedTonalFreq, ap_frameDuration>>
    /\ UNCHANGED appVars
    /\ UNCHANGED apOthers

\* the type is changed and the cutoff is left as it is
newCutoffKept(newType, cutoff) == cutoff

\* handleFilterTypeChange: the cutoff installed with the type
newCutoff(newType, cutoff) ==
    CASE newType = "lowpass" -> <<5000>>
      [] newType = "highpass" -> <<500>>
      [] newType = "bandpass" -> <<500, 6000>>
      [] OTHER -> <<1000>>

\* Array.isArray(filterSettings.cutoff)
cutoffIsArray(cutoff) == Len(cutoff) = 2

\* the select of the filter type: handleFilterTypeChange and setFilterSettings
HandleFilterTypeChange ==
    /\ ap_signalData.loaded
    /\ \E newType \in FilterTypes :
          /\ newType # ap_filterSettings.type
          /\ ap_filterSettings' = [type |-> newType,
                                   cutoff |-> newCutoff(newType, ap_filterSettings.cutoff)]
    /\ UNCHANGED <<ap_signalData, ap_error, ap_channelRoles, ap_orientationData,
                   ap_analysisStartTime, ap_orientationStartTimeOffset,
                   ap_selectedChannels, ap_isLoading, ap_processedData, ap_filterJobs,
                   ap_parsing>>
    /\ Remount
    /\ UNCHANGED apOthers

\* the cutoff input shown for LOWPASS and for HIGHPASS
EditCutoff ==
    /\ ap_signalData.loaded
    /\ ap_filterSettings.type \in {"lowpass", "highpass"}
    /\ \E value \in AppCutoffEdits :
          /\ ap_filterSettings' = [ap_filterSettings EXCEPT !.cutoff = <<value>>]
          /\ ap_filterSettings' # ap_filterSettings
    /\ UNCHANGED <<ap_signalData, ap_error, ap_channelRoles, ap_orientationData,
                   ap_analysisStartTime, ap_orientationStartTimeOffset,
                   ap_selectedChannels, ap_isLoading, ap_processedData, ap_filterJobs,
                   ap_parsing>>
    /\ Remount
    /\ UNCHANGED apOthers

\* the low-cutoff and the high-cutoff input shown for BANDPASS
EditBandCutoff ==
    /\ ap_signalData.loaded
    /\ ap_filterSettings.type = "bandpass"
    /\ \E input \in {"low-cutoff", "high-cutoff"}, value \in AppCutoffEdits :
          LET cutoff == ap_filterSettings.cutoff
              low    == IF cutoffIsArray(cutoff) THEN cutoff[1] ELSE 500
              high   == IF cutoffIsArray(cutoff) THEN cutoff[2] ELSE 6000
          IN  /\ ap_filterSettings' =
                    [ap_filterSettings EXCEPT
                        !.cutoff = IF input = "low-cutoff" THEN <<value, high>>
                                   ELSE <<low, value>>]
              /\ ap_filterSettings' # ap_filterSettings
    /\ UNCHANGED <<ap_signalData, ap_error, ap_channelRoles, ap_orientationData,
                   ap_analysisStartTime, ap_orientationStartTimeOffset,
                   ap_selectedChannels, ap_isLoading, ap_processedData, ap_filterJobs,
                   ap_parsing>>
    /\ Remount
    /\ UNCHANGED apOthers

\* handleApplyFilters, from the button that is disabled while isLoading: the
\* timer's callback closes over the signalData and the filterSettings of this
\* render
HandleApplyFilters ==
    /\ ap_signalData.loaded
    /\ ~ap_isLoading
    /\ Len(ap_filterJobs) < MaxPending
    /\ ap_isLoading' = TRUE
    /\ ap_error' = FALSE
    /\ ap_filterJobs' = Append(ap_filterJobs, [signalData |-> ap_signalData,
                                               filterSettings |-> ap_filterSettings])
    /\ UNCHANGED <<ap_signalData, ap_channelRoles, ap_orientationData,
                   ap_analysisStartTime, ap_orientationStartTimeOffset,
                   ap_selectedChannels, ap_filterSettings, ap_processedData, ap_parsing>>
    /\ Remount
    /\ UNCHANGED apOthers

\* signalData.channels.map(...): a channel filtered, and normalized, keeps
\* its length
newProcessedData(signalData) ==
    [loaded |-> TRUE,
     channels |-> [c \in 1..Len(signalData.channels) |-> signalData.channels[c]]]

\* the timer of handleApplyFilters fires and its try block completes
FilterTimerFires ==
    /\ ap_filterJobs # <<>>
    /\ ap_filterJobs' = Tail(ap_filterJobs)
    /\ ap_processedData' = newProcessedData(Head(ap_filterJobs).signalData)
    /\ ap_isLoading' = FALSE
    /\ UNCHANGED <<ap_signalData, ap_error, ap_channelRoles, ap_orientationData,
                   ap_analysisStartTime, ap_orientationStartTimeOffset,
                   ap_selectedChannels, ap_filterSettings, ap_parsing>>
    /\ Remount
    /\ UNCHANGED apOthers

\* the callback without its finally
FilterTimerThrowsNoFinally ==
    /\ ap_filterJobs # <<>>
    /\ ap_filterJobs' = Tail(ap_filterJobs)
    /\ ap_error' = TRUE
    /\ UNCHANGED <<ap_signalData, ap_channelRoles, ap_orientationData,
                   ap_analysisStartTime, ap_orientationStartTimeOffset, ap_isLoading,
                   ap_selectedChannels, ap_filterSettings, ap_processedData, ap_parsing>>
    /\ Remount
    /\ UNCHANGED apOthers

\* the timer of handleApplyFilters fires and an exception leaves its try
\* block (the arrays allocated for the channels do not fit)
FilterTimerThrows ==
    /\ ap_filterJobs # <<>>
    /\ ap_filterJobs' = Tail(ap_filterJobs)
    /\ ap_error' = TRUE
    /\ ap_isLoading' = FALSE
    /\ UNCHANGED <<ap_signalData, ap_channelRoles, ap_orientationData,
                   ap_analysisStartTime, ap_orientationStartTimeOffset,
                   ap_selectedChannels, ap_filterSettings, ap_processedData, ap_parsing>>
    /\ Remount
    /\ UNCHANGED apOthers

\* App's operations that set isLoading, and Reset
LoadNext == \/ HandleFileUpload \/ HandleReset
            \/ HandleApplyFilters \/ FilterTimerFires \/ FilterTimerThrows
            \/ HandleOrientationUpload \/ OrientationParsed \/ OrientationParseFails
            \/ HandleClearOrientation

\* the control panel's filter section, and what it is shown for
ControlsNext == \/ HandleFileUpload \/ HandleReset
                \/ HandleFilterTypeChange \/ EditCutoff \/ EditBandCutoff
                \/ HandleApplyFilters \/ FilterTimerFires \/ FilterTimerThrows

ApNext == \/ HandleFileUpload \/ HandleReset \/ HandleRoleChange
          \/ HandleOrientationUpload \/ OrientationParsed \/ OrientationParseFails
          \/ HandleClearOrientation \/ SetAnalysisStartTime
          \/ SetOrientationStartTimeOffset
          \/ SelectTab \/ TonalsDetected \/ SelectTonal \/ SetFrameDuration
          \/ DoaTimerFires

(***************************************************************************)
(* SpectrogramPlot: the effect that computes the STFT in a Web Worker.  A  *)
(* change of an input is one step with the render, the cleanup of the      *)
(* previous effect and the effect that follow it; a worker posting its     *)
(* result, and the component's handler receiving it, are steps of their    *)
(* own.  terminate() stops a worker and empties the queue of the messages  *)
(* it has posted.                                                          *)
(***************************************************************************)
\* data.length and samplingRate of the channel shown
SpDataLengths == {512, 2048, 8192}
SpSamplingRates == {8000, 16000}
\* the options of the two selects that are tried
SpWindowSizes == {1024, 4096}
SpHopSizes == {256, 512}
\* useState<number>(1024), useState<number>(256)
SpDefaultWindowSize == 1024
SpDefaultHopSize == 256
\* what a worker ends with: a SUCCESS message, an ERROR message, an error event
SpOutcomes == {"SUCCESS", "ERROR", "error event"}

\* no SpectrogramPlot is mounted
SpIdle == /\ sp_mounted = FALSE
          /\ sp_dataLength = 0
          /\ sp_samplingRate = 0
          /\ sp_windowSize = SpDefaultWindowSize
          /\ sp_hopSize = SpDefaultHopSize
          /\ sp_stftData = <<>>
          /\ sp_isCalculating = FALSE
          /\ sp_error = "null"
          /\ sp_workers = <<>>
          /\ sp_workerRef = 0

\* the worker is left running
terminateIgnored(workers, ref) == workers

\* workerRef.current.terminate(): the worker is gone, and what it posted with it
terminate(workers, ref) ==
    [k \in 1..(Len(workers) - 1) |-> IF k < ref THEN workers[k] ELSE workers[k + 1]]

\* if (workerRef.current) { workerRef.current.terminate(); }
workersAfter(workers, ref) == IF ref = 0 THEN workers ELSE terminate(workers, ref)

\* the cleanup of the previous effect, then the effect for the inputs given:
\* the workers, workerRef.current, stftData, isCalculating and error it leaves
spEffect(workers, workerRef, inputs, stftData, isCalculating) ==
    LET dataLength == inputs[1]
        windowSize == inputs[3]
        \* return () => { if (workerRef.current) { terminate(); workerRef.current = null } }
        \* and: if (workerRef.current) workerRef.current.terminate()
        stopped == workersAfter(workers, workerRef)
    IN  IF dataLength < windowSize
        THEN [workers |-> stopped, workerRef |-> 0, stftData |-> <<>>,
              isCalculating |-> isCalculating, error |-> "too short"]
        ELSE [workers |-> Append(stopped,
                                 [inputs |-> inputs, posted |-> "nothing"]),
              workerRef |-> Len(stopped) + 1, stftData |-> stftData,
              isCalculating |-> TRUE, error |-> "null"]

\* the effect's outcome written to the state
SpApplyEffect(e) ==
    /\ sp_workers' = e.workers
    /\ sp_workerRef' = e.workerRef
    /\ sp_stftData' = e.stftData
    /\ sp_isCalculating' = e.isCalculating
    /\ sp_error' = e.error

\* the spectrogram tab is opened: SpectrogramPlot mounts and its effect runs
SpMount ==
    /\ ~sp_mounted
    /\ sp_mounted' = TRUE
    /\ sp_dataLength' \in SpDataLengths
    /\ sp_samplingRate' \in SpSamplingRates
    /\ sp_windowSize' = SpDefaultWindowSize
    /\ sp_hopSize' = SpDefaultHopSize
    /\ SpApplyEffect(spEffect(<<>>, 0, <<sp_dataLength', sp_samplingRate', SpDefaultWindowSize,
                                         SpDefaultHopSize>>, <<>>, FALSE))
    /\ UNCHANGED spOthers

\* the tab is left: the effect's cleanup runs and the state is gone
SpUnmount ==
    /\ sp_mounted
    /\ sp_mounted' = FALSE
    /\ sp_workers' = workersAfter(sp_workers, sp_workerRef)
    /\ sp_workerRef' = 0
    /\ sp_dataLength' = 0
    /\ sp_samplingRate' = 0
    /\ sp_windowSize' = SpDefaultWindowSize
    /\ sp_hopSize' = SpDefaultHopSize
    /\ sp_stftData' = <<>>
    /\ sp_isCalculating' = FALSE
    /\ sp_error' = "null"
    /\ UNCHANGED spOthers

\* the props data or samplingRate change, or setWindowSize or setHopSize is
\* called with another option
SpChangeInput ==
    /\ sp_mounted
    /\ \E dataLength \in SpDataLengths, samplingRate \in SpSamplingRates,
          windowSize \in SpWindowSizes, hopSize \in SpHopSizes :
          /\ <<dataLength, samplingRate, windowSize, hopSize>>
                # <<sp_dataLength, sp_samplingRate, sp_windowSize, sp_hopSize>>
          /\ sp_dataLength' = dataLength
          /\ sp_samplingRate' = samplingRate
          /\ sp_windowSize' = windowSize
          /\ sp_hopSize' = hopSize
          /\ SpApplyEffect(spEffect(sp_workers, sp_workerRef,
                                    <<dataLength, samplingRate, windowSize, hopSize>>,
                                    sp_stftData, sp_isCalculating))
    /\ UNCHANGED sp_mounted
    /\ UNCHANGED spOthers

\* a worker ends its onmessage: self.postMessage, or an uncaught error
SpWorkerPosts ==
    /\ \E k \in 1..Len(sp_workers), outcome \in SpOutcomes :
          /\ sp_workers[k].posted = "nothing"
          /\ sp_workers' = [sp_workers EXCEPT ![k].posted = outcome]
    /\ UNCHANGED <<sp_mounted, sp_dataLength, sp_samplingRate, sp_windowSize, sp_hopSize,
                   sp_stftData, sp_isCalculating, sp_error, sp_workerRef>>
    /\ UNCHANGED spOthers

\* worker.onmessage or worker.onerror runs for what a worker has posted
SpWorkerReports ==
    /\ \E k \in 1..Len(sp_workers) :
          LET w == sp_workers[k] IN
          /\ w.posted \in SpOutcomes
          /\ sp_workers' = [sp_workers EXCEPT ![k].posted = "delivered"]
          /\ IF ~sp_mounted
             THEN UNCHANGED <<sp_stftData, sp_error, sp_isCalculating>>
             ELSE /\ sp_isCalculating' = FALSE
                  /\ CASE w.posted = "SUCCESS" ->
                            /\ sp_stftData' = <<w.inputs>>
                            /\ UNCHANGED sp_error
                       [] w.posted = "ERROR" ->
                            /\ sp_error' = "payload"
                            /\ sp_stftData' = <<>>
                       [] w.posted = "error event" ->
                            /\ sp_error' = "unexpected"
                            /\ sp_stftData' = <<>>
    /\ UNCHANGED <<sp_mounted, sp_dataLength, sp_samplingRate, sp_windowSize, sp_hopSize,
                   sp_workerRef>>
    /\ UNCHANGED spOthers

SpNext == SpMount \/ SpUnmount \/ SpChangeInput \/ SpWorkerPosts \/ SpWorkerReports

(***************************************************************************)
(* Specifications: one per component, the others at rest.                  *)
(***************************************************************************)
InitFFT == FtInit /\ WlIdle /\ EnIdle /\ DtIdle /\ DaIdle /\ FlIdle /\ TkIdle /\ OrIdle /\ ApIdle /\ SpIdle
SpecFFT == InitFFT /\ [][FtNext]_vars

InitWelch == WlInit /\ FtIdle /\ EnIdle /\ DtIdle /\ DaIdle /\ FlIdle /\ TkIdle /\ OrIdle /\ ApIdle /\ SpIdle
SpecWelch == InitWelch /\ [][WlNext]_vars

InitNoise == EnInit /\ FtIdle /\ WlIdle /\ DtIdle /\ DaIdle /\ FlIdle /\ TkIdle /\ OrIdle /\ ApIdle /\ SpIdle
SpecNoise == InitNoise /\ [][EnNext]_vars

\* the two framing functions: a call of one of them
InitFrames == /\ FtIdle /\ WlIdle /\ EnIdle /\ FlIdle /\ TkIdle /\ OrIdle /\ ApIdle /\ SpIdle
              /\ \/ DtInit /\ DaIdle
                 \/ DaInit /\ DtIdle
SpecFrames == InitFrames /\ [][FrNext]_vars

InitFilter == FlInit /\ FtIdle /\ WlIdle /\ EnIdle /\ DtIdle /\ DaIdle /\ TkIdle /\ OrIdle /\ ApIdle /\ SpIdle
SpecFilter == InitFilter /\ [][FlNext]_vars

InitTrack == TkInit /\ FtIdle /\ WlIdle /\ EnIdle /\ DtIdle /\ DaIdle /\ FlIdle /\ OrIdle /\ ApIdle /\ SpIdle
SpecTrack == InitTrack /\ [][TkNext]_vars

InitOrient == OrInit /\ FtIdle /\ WlIdle /\ EnIdle /\ DtIdle /\ DaIdle /\ FlIdle /\ TkIdle /\ ApIdle /\ SpIdle
SpecOrient == InitOrient /\ [][OrNext]_vars

InitApp == ApIdle /\ FtIdle /\ WlIdle /\ EnIdle /\ DtIdle /\ DaIdle /\ FlIdle /\ TkIdle /\ OrIdle /\ SpIdle
SpecApp == InitApp /\ [][ApNext]_vars

SpecLoading == InitApp /\ [][LoadNext]_vars
SpecControls == InitApp /\ [][ControlsNext]_vars
\* a timer that was set fires, and parseXlsx settles
SpecLoadingFair ==
    /\ SpecLoading
    /\ WF_vars(FilterTimerFires \/ FilterTimerThrows)
    /\ WF_vars(OrientationParsed \/ OrientationParseFails)

InitSpectrogram == SpIdle /\ FtIdle /\ WlIdle /\ EnIdle /\ DtIdle /\ DaIdle /\ FlIdle /\ TkIdle /\ OrIdle /\ ApIdle
SpecSpectrogram == InitSpectrogram /\ [][SpNext]_vars

(***************************************************************************)
(* Properties.                                                             *)
(***************************************************************************)
IsPowerOfTwo(n) == \E k \in 0..n : n = Pow2(k)

\* the p-th percentile of the sorted energies, interpolated between the two
\* neighbouring ones when the rank p / 100 * (n - 1) is fractional
InterpolatedPercentile(sortedEnergies, p) ==
    LET rank == p * (Len(sortedEnergies) - 1)
        lo   == rank \div 100
        frac == rank % 100
    IN  IF frac = 0 THEN sortedEnergies[lo + 1]
        ELSE sortedEnergies[lo + 1]
                 + RoundDiv(frac * (sortedEnergies[lo + 2] - sortedEnergies[lo + 1]),
                            100)

\* C1: estimateNoise returns a noise_percentage between 0 and 100, that is,
\* noise_samples_count never exceeds the number of samples of the signal.
C1_NoisePercentageWithinBounds ==
    (en_pc = "done" /\ en_result.kind = "return")
        => /\ en_result.noise_percentage >= 0
           /\ en_result.noise_percentage <= 100 * FP
           /\ en_result.noise_samples_count <= Len(en_data)

\* C2: whenever there is at least one frame, the threshold estimateNoise
\* returns is the interpolated p-th percentile of frameEnergies: a number
\* between the smallest and the largest frame energy.
C2_ThresholdIsInterpolatedPercentile ==
    (en_pc = "done" /\ en_result.kind = "return" /\ en_frameEnergies # <<>>)
        => LET sortedEnergies == SortAscending(en_frameEnergies) IN
           /\ IsNumber(en_result.threshold)
           /\ en_result.threshold = InterpolatedPercentile(sortedEnergies, en_percentile)
           /\ sortedEnergies[1] <= en_result.threshold
           /\ en_result.threshold <= sortedEnergies[Len(sortedEnergies)]

\* C3: estimateNoise terminates for every frameLengthSec >= 0 (every
\* iteration of its frame loop moves the frame start forward), and a signal
\* shorter than one frame yields the degenerate profile without raising.
C3_TerminatesAndDegenerates ==
    /\ [][EstimateNoiseFrame => en_i' > en_i]_vars
    /\ [](en_pc = "done"
              /\ Len(en_data) < noiseFrameLength(en_frameTicks, en_samplingRate)
          => /\ en_result.kind = "return"
             /\ en_result.noise_samples_count = 0
             /\ en_result.noise_percentage = 0
             /\ en_result.threshold = 0
             /\ en_result.frameEnergies = <<>>
             /\ en_result.frameTimes = <<>>
             /\ en_result.noiseMask = <<>>
             /\ en_result.freqs = <<>>
             /\ en_result.psd_db = <<>>)

\* C4: calculateWelchPsd returns an empty estimate (freqs and psd both
\* empty) whenever data.length < nperseg, for every nperseg >= 1.
C4_EmptyWhenShorterThanSegment ==
    (wl_pc = "done" /\ wl_npersegArg >= 1 /\ Len(wl_data) < wl_npersegArg)
        => /\ wl_result.kind = "return"
           /\ wl_result.freqs = <<>>
           /\ wl_result.psd = <<>>

\* C5: calculateWelchPsd terminates for every data length and every
\* nperseg >= 0: every iteration of the segment loop strictly increases the
\* start index.
C5_SegmentLoopAdvances == [][WelchSegment => wl_i' > wl_i]_vars

\* C6: detectTonals and calculateDoaVsTime return an empty list without
\* raising whenever the signal is shorter than one frame, and both terminate:
\* every iteration of the frame loop advances i by hop = floor(frameSize/4)
\* > 0, and neither is left inside a call that never comes back.
C6_FrameLoopsAdvance ==
    /\ [][DetectTonalsFrame => dt_i' > dt_i]_vars
    /\ [][DoaFrame => da_i' > da_i]_vars
    /\ [](dt_pc = "frames" => frameHopSize(frameSizeOf(dt_frameProduct)) > 0)
    /\ [](da_pc = "frames" => frameHopSize(frameSizeOf(da_frameProduct)) > 0)
    /\ [](dt_pc # "stuck")
    /\ []((dt_pc = "done" /\ Len(dt_data) < frameSizeOf(dt_frameProduct))
             => dt_result = [kind |-> "return", tonals |-> <<>>])
    /\ []((da_pc = "done" /\ Len(da_hData) < frameSizeOf(da_frameProduct))
             => da_result = [kind |-> "return", points |-> <<>>])

\* C7: calculateFFT never raises, whatever the length of its input (the
\* empty signal and a single sample included), and returns magnitudes and
\* frequencies of equal length.
C7_CalculateFFTNeverRaises ==
    ft_op = "calculateFFT"
        => /\ ft_result.kind = "return"
           /\ Len(ft_result.magnitudes) = Len(ft_result.frequencies)

C9_SingleSidedSpectrum ==
    (ft_op = "calculateFFT" /\ ft_result.kind = "return")
        => LET N == paddedLengthOf(Len(ft_data))
               X == fft(ZeroPad(ft_data, N))
           IN  /\ Len(ft_result.magnitudes) = Len(ft_result.frequencies)
               /\ \A k \in 0..(N \div 2) :
                    /\ At(ft_result.frequencies, k)
                           = RoundDiv(k * ft_samplingRate * FP, N)
                    /\ At(ft_result.magnitudes, k)
                           = IF k = 0 \/ k = N \div 2
                             THEN RoundDiv(Magnitude(X.real[k + 1], X.imag[k + 1]), N)
                             ELSE RoundDiv(2 * Magnitude(X.real[k + 1], X.imag[k + 1]), N)

\* an invalid filter configuration: a band with low cutoff >= high cutoff
\* or high cutoff >= Nyquist, a low-pass or high-pass cutoff >= Nyquist
InvalidFilterConfiguration(type, cutoff, samplingRate) ==
    \/ /\ type = "bandpass"
       /\ Len(cutoff) = 2
       /\ (cutoff[1] >= cutoff[2] \/ 2 * cutoff[2] >= samplingRate)
    \/ /\ type \in {"lowpass", "highpass"}
       /\ Len(cutoff) = 1
       /\ 2 * cutoff[1] >= samplingRate

\* C10: applyFilter returns the input signal unchanged for every invalid
\* configuration (BANDPASS with low cutoff >= high cutoff or high cutoff >=
\* Nyquist, LOWPASS or HIGHPASS with cutoff >= Nyquist), and with type NONE
\* it is the identity.
C10_InvalidFilterPassesThrough ==
    (/\ fl_result.kind = "return"
     /\ \/ fl_filterType = "none"
        \/ InvalidFilterConfiguration(fl_filterType, fl_cutoff, fl_samplingRate))
        => fl_result.output = fl_data

\* m is the arithmetic mean of values, to the nearest thousandth
IsMeanOf(m, values) == 2 * Abs(Len(values) * m - SumSeq(values)) <= Len(values)

\* r is what the tracking bin reports: its size and the means over its tonals
Promotes(r, bin) ==
    LET n == Len(bin.tonals) IN
    /\ r.n_detections = n
    /\ IsMeanOf(r.frequency_mean, [k \in 1..n |-> bin.tonals[k].frequency])
    /\ IsMeanOf(r.snr_mean, [k \in 1..n |-> bin.tonals[k].snr])
    /\ IsMeanOf(r.power_mean, [k \in 1..n |-> bin.tonals[k].power])

\* C11: detectTonals returns exactly one PersistentTonal for each tracking
\* bin with at least minFramesPresent detections and none for a smaller bin;
\* its n_detections is the bin's size and its frequency_mean, snr_mean and
\* power_mean are the arithmetic means over the bin's detections.
C11_PromotesExactlyTheLargeBins ==
    tk_pc = "done"
        => LET bins     == tk_persistentTonals
               result   == tk_result.tonals
               promoted == {b \in 1..Len(bins) :
                               Len(bins[b].tonals) >= tk_minFramesPresent}
           IN  /\ tk_result.kind = "return"
               /\ Len(result) = Cardinality(promoted)
               /\ \E of \in [1..Len(result) -> promoted] :
                     /\ \A j, k \in 1..Len(result) : of[j] = of[k] => j = k
                     /\ \A j \in 1..Len(result) : Promotes(result[j], bins[of[j]])

\* C11's case: of two bins, the one with two detections is reported and the
\* one with a single detection is not.
C11_Witness ==
    /\ tk_pc = "done"
    /\ tk_minFramesPresent = 2
    /\ Len(tk_persistentTonals) = 2
    /\ \E b \in 1..2 : Len(tk_persistentTonals[b].tonals) = 2
    /\ \E b \in 1..2 : Len(tk_persistentTonals[b].tonals) = 1
    /\ Len(tk_result.tonals) = 1
    /\ tk_result.tonals[1].n_detections = 2

NearRunningMean(tonal, bin) ==
    LET n == Len(bin.tonals) IN
    Abs(n * tonal.frequency - SumSeq([k \in 1..n |-> bin.tonals[k].frequency]))
        < n * freqTolerance * FP

\* C13: a detection joins an existing bin exactly when its frequency is
\* within freqTolerance (50 Hz) of that bin's representative, the running
\* mean of the bin's detections so far; otherwise it opens a new bin.
C13_JoinsByRunningMean ==
    [][TrackTonal =>
          LET bins == tk_persistentTonals
              near == {b \in 1..Len(bins) : NearRunningMean(trackCurrent, bins[b])}
          IN  IF near # {}
              THEN /\ Len(tk_persistentTonals') = Len(bins)
                   /\ \E b \in near :
                         tk_persistentTonals'[b].tonals
                             = Append(bins[b].tonals, trackCurrent)
              ELSE Len(tk_persistentTonals') = Len(bins) + 1]_vars

\* the start indices of the frames calculateDoaVsTime goes through
doaFrameStarts(len, frameSize) ==
    IF frameHopSize(frameSize) = 0 THEN {}
    ELSE {i \in 0..len : i % frameHopSize(frameSize) = 0 /\ i + frameSize <= len}

\* the frame at i has all its samples in the three channels and the target
\* bin inside its FFT
doaFrameComplete(i, frameSize) ==
    /\ i + frameSize <= Len(da_vxData)
    /\ i + frameSize <= Len(da_vyData)
    /\ doaFreqBin(da_tonalFreq, frameSize, da_samplingRate) < frameSize

\* C14: every point calculateDoaVsTime returns has a finite doa in [0, 360)
\* and a finite confidence in [0, 1]; a frame whose azimuth or confidence is
\* not finite (vx or vy shorter than the hydrophone channel, the target bin
\* outside the frame's FFT) contributes no point; the times are strictly
\* increasing.
C14_DoaPointsFiniteAndOrdered ==
    (da_pc = "done" /\ da_result.kind = "return")
        => LET points    == da_result.points
               frameSize == frameSizeOf(da_frameProduct)
               starts    == doaFrameStarts(Len(da_hData), frameSize)
           IN  /\ \A p \in 1..Len(points) :
                     /\ IsNumber(points[p].doa)
                     /\ 0 <= points[p].doa /\ points[p].doa < 360 * FP
                     /\ IsNumber(points[p].confidence)
                     /\ 0 <= points[p].confidence /\ points[p].confidence <= FP
               /\ Len(points)
                      = Cardinality({i \in starts : doaFrameComplete(i, frameSize)})
               /\ \A p \in 1..(Len(points) - 1) : points[p].time < points[p + 1].time

\* C14's case: of two frames the second, which reaches past the end of a
\* shorter vx or vy channel, gave no point, and the first gave one west of
\* north.
C14_Witness ==
    /\ da_pc = "done"
    /\ Cardinality(doaFrameStarts(Len(da_hData), frameSizeOf(da_frameProduct))) = 2
    /\ Len(da_result.points) = 1
    /\ da_result.points[1].doa > 180 * FP

\* the call of getInterpolatedOrientation has returned for a list of samples
orientDone == or_pc = "done" /\ or_data # <<>>

\* C19, as amended: for a non-empty list ascending by time the result is
\* exactly the first sample's roll, pitch and yaw for every time <=
\* first.time, and exactly the last sample's for every time >= last.time
\* that is later than first.time; for an empty list it is roll = pitch =
\* yaw = 0; the list is never modified.
C19_ClampsToEndpoints ==
    /\ []((orientDone /\ or_time <= or_data[1].time)
             => or_result = orientAnglesOf(or_data[1]))
    /\ []((orientDone /\ or_time >= or_data[Len(or_data)].time
                      /\ or_time > or_data[1].time)
             => or_result = orientAnglesOf(or_data[Len(or_data)]))
    /\ []((or_pc = "done" /\ or_data = <<>>)
             => or_result = [roll |-> 0, pitch |-> 0, yaw |-> 0])
    /\ [][or_data' = or_data]_vars

\* C19's case: a time at or after the last of several samples, later than
\* the first one, has been answered with the last sample's attitude, which
\* differs from the first one's.
C19_Witness ==
    /\ orientDone
    /\ Len(or_data) >= 2
    /\ or_time >= or_data[Len(or_data)].time
    /\ or_time > or_data[1].time
    /\ orientAnglesOf(or_data[1]) # orientAnglesOf(or_data[Len(or_data)])
    /\ or_result = orientAnglesOf(or_data[Len(or_data)])

\* C19, as stated: the first sample's attitude for every time <= first.time
\* and the last sample's for every time >= last.time, also where all the
\* samples share one timestamp.
C19_ClampsToBothEndpoints ==
    /\ []((orientDone /\ or_time <= or_data[1].time)
             => or_result = orientAnglesOf(or_data[1]))
    /\ []((orientDone /\ or_time >= or_data[Len(or_data)].time)
             => or_result = orientAnglesOf(or_data[Len(or_data)]))
    /\ []((or_pc = "done" /\ or_data = <<>>)
             => or_result = [roll |-> 0, pitch |-> 0, yaw |-> 0])
    /\ [][or_data' = or_data]_vars

\* the time asked for lies strictly between the first and the last sample
orientInside == /\ or_data # <<>>
                /\ or_data[1].time < or_time
                /\ or_time < or_data[Len(or_data)].time

\* a lies between b and c
Between(a, b, c) == Min(b, c) <= a /\ a <= Max(b, c)

\* C20: for a list ascending by time, samples possibly sharing a timestamp,
\* and first.time < t < last.time, the binary search terminates (every pass
\* narrows the interval) with an index i such that samples[i].time <= t <
\* samples[i+1].time, and each returned angle is a1 + (t - t1) / (t2 - t1) *
\* (a2 - a1) for that pair, between the pair's two values, t2 - t1 not zero.
C20_InterpolatesInBracket ==
    /\ [][OrientSearchStep => or_high' - or_low' < or_high - or_low]_vars
    /\ []((or_pc = "done" /\ orientInside)
             => /\ 0 <= or_index /\ or_index + 2 <= Len(or_data)
                /\ LET p1 == or_data[or_index + 1]
                       p2 == or_data[or_index + 2]
                   IN  /\ p1.time <= or_time /\ or_time < p2.time
                       /\ p2.time - p1.time # 0
                       /\ or_result.roll
                              = orientLerp(or_time, p1.time, p2.time, p1.roll, p2.roll)
                       /\ or_result.pitch
                              = orientLerp(or_time, p1.time, p2.time, p1.pitch, p2.pitch)
                       /\ or_result.yaw
                              = orientLerp(or_time, p1.time, p2.time, p1.yaw, p2.yaw)
                       /\ Between(or_result.roll, p1.roll, p2.roll)
                       /\ Between(or_result.pitch, p1.pitch, p2.pitch)
                       /\ Between(or_result.yaw, p1.yaw, p2.yaw))

\* C20's case: in a list where two samples share a timestamp, a time inside
\* has been answered with a roll strictly between the bracketing pair's.
C20_Witness ==
    /\ or_pc = "done"
    /\ orientInside
    /\ \E k \in 1..(Len(or_data) - 1) : or_data[k].time = or_data[k + 1].time
    /\ or_index >= 0
    /\ or_result.roll # or_data[or_index + 1].roll
    /\ or_result.roll # or_data[or_index + 2].roll

\* at least one of the three roles holds no channel
RoleUnassigned == \E r \in AppRoles : ap_channelRoles[r] = Null

\* the points the DoA tab holds came from the frames of the analysed data,
\* in order: point k from the frame that starts at (k - 1) * hopSize
doaPointFrameStart(k) == (k - 1) * frameHopSize(frameSizeOf(AppFrameProduct))

\* the leading samples removed for analysisStartTime: what the analysed
\* channels are shorter by
samplesRemoved ==
    AppSignalLen - Len(slicedAllChannelsData(AppChannelsData, ap_analysisStartTime,
                                             AppSamplingRate)[1])

\* C15: every point of the DoA analysis carries the absolute time of its
\* frame's midpoint in the original signal's timeline, time * samplingRate =
\* s + i + frameSize / 2 for s the leading samples removed and i the frame's
\* start in the analysed data, whatever analysisStartTime is.
C15_TimeIsAbsoluteMidpoint ==
    \A k \in 1..Len(ap_doaData) :
        2 * ap_doaData[k].time * AppSamplingRate
            = (2 * (samplesRemoved + doaPointFrameStart(k))
                 + frameSizeOf(AppFrameProduct)) * FP

\* C16: after any sequence of role assignments, uploads and resets no two
\* roles hold the same channel; an assignment sets its role, takes the
\* channel from every other role that held it, and leaves a role holding
\* another channel as it was.
C16_RolesHoldDistinctChannels ==
    /\ [](\A r1 \in AppRoles, r2 \in AppRoles :
              (r1 # r2 /\ ap_channelRoles[r1] # Null)
                  => ap_channelRoles[r1] # ap_channelRoles[r2])
    /\ [][HandleRoleChange =>
            \E role \in AppRoles, value \in AppRoleValues :
               LET channelIndex == IF value = "none" THEN Null
                                   ELSE CHOOSE c \in 0..3 : ToString(c) = value
               IN  /\ ap_channelRoles'[role] = channelIndex
                   /\ \A other \in AppRoles \ {role} :
                         ap_channelRoles'[other]
                            = IF channelIndex # Null /\ ap_channelRoles[other] = channelIndex
                              THEN Null
                              ELSE ap_channelRoles[other]]_vars

\* C16's case: the three roles were given three channels, hydrophone last
\* and with a channel another role had held, and the signal was then reset.
C16_Witness ==
    /\ ~ap_signalData.loaded
    /\ \A r \in AppRoles : ap_channelRoles[r] # Null
    /\ ap_channelRoles.hydrophone = 3

\* C17: while a role is unassigned DoA is disabled: calculateDoaVsTime is not
\* invoked and no call of it is pending, the DoA result list is empty, the
\* DoA tab is neither offered nor rendered, and a view whose active tab was
\* DoA is on the waveform tab.
C17_DoaDisabledWithoutRoles ==
    /\ [](RoleUnassigned
            => /\ ~ap_timer
               /\ ap_doaData = <<>>
               /\ "doa" \notin visibleTabs(ap_channelRoles)
               /\ ~ap_doaMounted
               /\ ap_activeTab # "doa")
    /\ [][RoleUnassigned => ~DoaTimerFires]_vars
    /\ [][(ap_activeTab = "doa" /\ RoleUnassigned') => ap_activeTab' = "waveform"]_vars

\* C17's case: a signal is loaded, tonals were detected, two of the roles
\* are assigned and one is not.
C17_Witness ==
    /\ ap_signalData.loaded
    /\ ap_persistentTonals # <<>>
    /\ ap_channelRoles.hydrophone # Null
    /\ ap_channelRoles.vx # Null
    /\ ap_channelRoles.vy = Null

\* the attitude the claim names for a point: the one interpolated at the
\* point's time in the signal plus orientationStartTimeOffset
attitudeFor(p) ==
    getInterpolatedOrientation(p.time + ap_orientationStartTimeOffset,
                               ap_orientationData.data)

\* C18: with no orientation data loaded (also after a failed upload or after
\* Clear) every point's doa equals its doa_raw; with orientation data loaded
\* each point's doa is its doa_raw corrected with the attitude interpolated
\* at point time + analysisStartTime + orientationStartTimeOffset.
C18_CorrectionOnlyWithOrientation ==
    /\ [](\A k \in 1..Len(ap_doaData) :
             LET p == ap_doaData[k] IN
             IF ap_orientationData.loaded
             THEN p.doa = correctDoa(p.doa_raw, attitudeFor(p).roll,
                                     attitudeFor(p).pitch, attitudeFor(p).yaw)
             ELSE p.doa = p.doa_raw)
    /\ [][(OrientationParseFails \/ HandleClearOrientation)
             => ~ap_orientationData'.loaded]_vars

\* C18's case: orientation data is loaded with an offset, and a point was
\* corrected with the attitude at the offset time, which is not the attitude
\* at the point's own time.
C18_Witness ==
    /\ ap_orientationData.loaded
    /\ ap_orientationStartTimeOffset # 0
    /\ \E k \in 1..Len(ap_doaData) :
          LET p == ap_doaData[k] IN
          /\ p.doa # p.doa_raw
          /\ attitudeFor(p) # getInterpolatedOrientation(p.time, ap_orientationData.data)

\* C24: every PersistentTonal returned is supported by detections from at
\* least minFramesPresent distinct frames: a bin never receives two
\* detections from the same frame, so a bin never holds more detections than
\* frames have been gone through, and n_detections never exceeds the number
\* of analysed frames.
C24_OneDetectionPerFrame ==
    /\ \A b \in 1..Len(tk_persistentTonals) :
          Len(tk_persistentTonals[b].tonals)
              <= Min(tk_frame + 1, Len(tk_allFramesTonals))
    /\ tk_pc = "done"
          => \A j \in 1..Len(tk_result.tonals) :
                tk_result.tonals[j].n_detections <= Len(tk_allFramesTonals)

\* the index whose bits binary digits are those of i reversed
RECURSIVE BitReverse(_, _)
BitReverse(i, bits) ==
    IF bits = 0 THEN 0
    ELSE (i % 2) * Pow2(bits - 1) + BitReverse(i \div 2, bits - 1)

\* cos and sin of q quarter turns
QuarterCos(q) == <<1, 0, -1, 0>>[(q % 4) + 1]
QuarterSin(q) == <<0, 1, 0, -1>>[(q % 4) + 1]

\* the real and the imaginary part of X_k = sum_n x_n * exp(-2 pi i k n / N)
\* for N in {1, 2, 4}
RECURSIVE DftSum(_, _, _, _)
DftSum(x, k, n, part) ==
    IF n >= Len(x) THEN 0
    ELSE LET q == (4 * k * n) \div Len(x)
         IN  (IF part = "real" THEN x[n + 1] * QuarterCos(q)
              ELSE -(x[n + 1] * QuarterSin(q)))
               + DftSum(x, k, n + 1, part)

\* fft has returned the coefficients of a signal of 1, 2 or 4 samples
fftReturned == /\ ft_op = "fft"
               /\ Len(ft_data) \in {1, 2, 4}
               /\ ft_result.kind = "return"

\* the first loop gives the bit-reversed order, and the coefficients are
\* those of the discrete Fourier transform up to the twiddle factors' residue
fftIsTransform ==
    LET N == Len(ft_data) IN
    /\ \A i \in 0..(N - 1) :
          fftPermute(ft_data, 0, 0)[i + 1] = ft_data[BitReverse(i, FloorLog2(N)) + 1]
    /\ \A k \in 0..(N - 1) :
          /\ ft_result.real[k + 1] = DftSum(ft_data, k, 0, "real")
          /\ ft_result.imag[k + 1] = DftSum(ft_data, k, 0, "imag")

\* no coefficient carries a residue
fftIsExact ==
    \A k \in 1..Len(ft_data) :
        fftResidue(ft_data).real[k] = 0 /\ fftResidue(ft_data).imag[k] = 0

\* C23, as amended: for N in {1, 2, 4} the first loop of fft rearranges the
\* samples into bit-reversed order and the coefficients returned equal the
\* discrete Fourier transform of the input, exactly for N in {1, 2} and up
\* to a multiple of Math.cos(-Math.PI / 2) = 6.1e-17 for N = 4; the input is
\* left unmodified.
C23_FftIsTheTransform ==
    /\ [](fftReturned => /\ fftIsTransform
                         /\ Len(ft_data) <= 2 => fftIsExact)
    /\ [][ft_data' = ft_data]_vars

\* C23's case: fft has returned the transform of four samples, with a
\* coefficient that has an imaginary part.
C23_Witness ==
    /\ fftReturned
    /\ Len(ft_data) = 4
    /\ fftPermute(ft_data, 0, 0) # ft_data
    /\ \E k \in 1..4 : ft_result.imag[k] # 0

\* C23, as stated: the coefficients are exactly those of the discrete
\* Fourier transform for N = 4 as well.
C23_FftIsExactlyTheTransform ==
    /\ [](fftReturned => fftIsTransform /\ fftIsExact)
    /\ [][ft_data' = ft_data]_vars


(***************************************************************************)
(* SpectrogramPlot's workers.                                              *)
(***************************************************************************)
\* the inputs the component has now
spInputs == <<sp_dataLength, sp_samplingRate, sp_windowSize, sp_hopSize>>

\* a worker is computing, or its result has not been received yet
spWorkerRunning == \E k \in 1..Len(sp_workers) : sp_workers[k].posted # "delivered"

\* the step in which a result is received is taken by the worker that
\* workerRef.current names, and that worker was started for the present inputs
spReportIsCurrent ==
    /\ sp_workerRef \in 1..Len(sp_workers)
    /\ sp_workers[sp_workerRef].posted \in SpOutcomes
    /\ sp_workers'[sp_workerRef].posted = "delivered"
    /\ sp_workers[sp_workerRef].inputs = spInputs

\* C22: at most one STFT worker is alive at any time, none is alive once the
\* component is unmounted, and a result is only ever applied to stftData or
\* error when it comes from the worker started for the present inputs, never
\* from a superseded one.
C22_OneWorkerNoStaleResult ==
    /\ [](Len(sp_workers) <= 1)
    /\ [](~sp_mounted => Len(sp_workers) = 0)
    /\ [][SpWorkerReports => spReportIsCurrent]_vars
    /\ [][(sp_stftData' # sp_stftData /\ sp_stftData' # <<>>) => sp_stftData' = <<spInputs>>]_vars

\* a worker with a result posted is terminated by a change of the inputs, and
\* a new one is started
C22_Witness ==
    /\ sp_mounted
    /\ Len(sp_workers) = 1
    /\ sp_workers[1].posted = "nothing"
    /\ sp_workers[1].inputs = <<8192, 16000, 4096, 512>>
    /\ sp_stftData = <<<<2048, 8000, 1024, 256>>>>

C25_ProcessedDataFollowsSignal ==
    /\ ~ap_signalData.loaded => ~ap_processedData.loaded
    /\ (ap_signalData.loaded /\ ap_processedData.loaded)
          => ap_processedData.channels = ap_signalData.channels

\* an operation that set isLoading has not completed
operationPending == ap_filterJobs # <<>> \/ ap_parsing > 0

\* C26: once every pending operation has completed the application is not
\* loading, a loading application eventually is not loading, a file upload
\* leaves isLoading false, and a filter run or an orientation parse that fails
\* sets the error.
C26_LoadingEnds ==
    /\ [](~operationPending => ~ap_isLoading)
    /\ (ap_isLoading ~> ~ap_isLoading)
    /\ [][HandleFileUpload => ~ap_isLoading']_vars
    /\ [][(FilterTimerThrows \/ OrientationParseFails) => (ap_error' /\ ~ap_isLoading')]_vars

\* C26's case: with a signal loaded an operation has failed, and none is
\* pending
C26_Witness ==
    /\ ap_signalData.loaded
    /\ ap_error
    /\ ~operationPending
    /\ ~ap_isLoading

\* designButterworthFilter reaches its last else, for a type other than NONE
designMismatch(filterSettings) ==
    /\ filterSettings.type # "none"
    /\ ~(filterSettings.type = "lowpass" /\ ~cutoffIsArray(filterSettings.cutoff))
    /\ ~(filterSettings.type = "highpass" /\ ~cutoffIsArray(filterSettings.cutoff))
    /\ ~(filterSettings.type = "bandpass" /\ cutoffIsArray(filterSettings.cutoff))

\* C30: the cutoff is one number for LOWPASS and HIGHPASS and a pair for
\* BANDPASS, in filterSettings and in what a pending filter job has captured,
\* so designButterworthFilter never falls to its pass-through for a mismatch;
\* a change of the type installs 5000, 500 or [500, 6000].
C30_CutoffMatchesType ==
    /\ [](/\ ap_filterSettings.type \in {"lowpass", "highpass"}
             => Len(ap_filterSettings.cutoff) = 1
          /\ ap_filterSettings.type = "bandpass" => Len(ap_filterSettings.cutoff) = 2
          /\ ~designMismatch(ap_filterSettings)
          /\ \A k \in 1..Len(ap_filterJobs) : ~designMismatch(ap_filterJobs[k].filterSettings))
    /\ [][HandleFilterTypeChange =>
            /\ ap_filterSettings'.type = "lowpass" => ap_filterSettings'.cutoff = <<5000>>
            /\ ap_filterSettings'.type = "highpass" => ap_filterSettings'.cutoff = <<500>>
            /\ ap_filterSettings'.type = "bandpass" => ap_filterSettings'.cutoff = <<500, 6000>>]_vars

\* C30's case: a filter job is pending for a BANDPASS whose two cutoffs were
\* both edited
C30_Witness ==
    /\ ap_filterJobs # <<>>
    /\ ap_filterJobs[1].filterSettings = [type |-> "bandpass", cutoff |-> <<0, 8000>>]


(***************************************************************************)
(* DoaAnalysisTab: its timer and its selection.                            *)
(***************************************************************************)
\* C28: a timer of the DoA tab that fires was set for the parameters the tab
\* has when it fires, and its callback returns and leaves isCalculating
\* false, so that isCalculating is true only while a timer is pending.
C28_TimerIsCurrentAndEnds ==
    /\ [][DoaTimerFires
            => /\ ap_timerArgs = doaTimerArgs(ap_selectedTonalFreq, ap_frameDuration)
               /\ ~ap_isCalculating']_vars
    /\ [](ap_isCalculating => ap_timer)

\* the frequency_mean of the tonals handed to the DoA tab
tonalFrequencies == {ap_persistentTonals[k] : k \in 1..Len(ap_persistentTonals)}

\* C29: in the DoA tab the selection is null when persistentTonals is empty
\* and otherwise is the frequency_mean of one of the tonals of the list; when
\* the tab is opened with tonals detected the first of them is selected.
C29_SelectionIsOfTheList ==
    /\ [](ap_doaMounted =>
            IF ap_persistentTonals = <<>> THEN ap_selectedTonalFreq = Null
            ELSE ap_selectedTonalFreq \in tonalFrequencies)
    /\ [][(~ap_doaMounted /\ ap_doaMounted' /\ ap_persistentTonals # <<>>)
             => ap_selectedTonalFreq' = ap_persistentTonals[1]]_vars

\* C29's case: the second tonal of the list was selected in the DoA tab
C29_Witness ==
    /\ ap_doaMounted
    /\ Len(ap_persistentTonals) = 2
    /\ ap_selectedTonalFreq = ap_persistentTonals[2]

====
